---- MODULE Spec2Model ----
(***************************************************************************)
(* Verification model of the Tableau combo-chart extension:                *)
(*   ComboChart (src/js/comboChart.js)  render, createScales, axes, bars   *)
(*   Config     (unnamed/part_002)      merge, load, save, set             *)
(*   DataHandler (src/js/dataHandler.js) getData field detection           *)
(*   main.js                            load cycle, debounced listeners    *)
(*                                                                         *)
(* Numbers.  Measure values are integers.  Scale domains are kept in       *)
(* hundredths (FP = 100) so that the factors 1.1 and 0.9 of createScales   *)
(* are exact; pixel positions are exact rationals, kept as a numerator     *)
(* over the denominator of the scale they come from.  IEEE rounding of     *)
(* the JavaScript doubles is not modelled.                                 *)
(*                                                                         *)
(* null is the empty tuple and a present value v is <<v>>.                 *)
(***************************************************************************)
EXTENDS Integers, Sequences, FiniteSets, TLC

VARIABLES
  Config_current,   \* Config.current, the configuration object of the page
  rect,             \* bounding rect <<width, height>> of the svg's container
  resizeTimeout,    \* the resize observer's debounce timer is pending
  data,             \* ComboChart.data
  originalData,     \* ComboChart.originalData
  config,           \* ComboChart.config
  isFirstRender,    \* ComboChart.isFirstRender
  height,           \* ComboChart.height (plot height, px)
  xScale,           \* domain of ComboChart.xScale: the drawn dimension order
  yScaleLeft,       \* ComboChart.yScaleLeft
  yScaleRight,      \* ComboChart.yScaleRight
  barsGroup,        \* rects of .bars-group
  labelsGroup,      \* bar labels of .labels-group
  lineGroup,        \* points of the line path in .line-group
  yAxisLeftGroup,   \* tick labels of .y-axis-left, in document order
  yAxisRightGroup,  \* tick labels of .y-axis-right, in document order
  worksheet,        \* the rows the worksheet's summary data holds
  lastArgs,         \* history: sort order, config and rect used by the last render
  lastOp,           \* history: "render" or "resize", the caller of the last render
  lastLegendPosition, \* ComboChart._lastLegendPosition
  legendTimers,     \* pending timeouts of renderLegend: the position each has seen
  aliased,          \* ComboChart.config is the object Config.current
  clock,            \* history: ticks of 100 ms since the last resize notification;
                    \* null in the specifications that do not follow the time
  resizeDone,       \* history: the last run of the resize timeout's callback
  cfgTree,          \* Config.current as a JSON tree (keys may be absent)
  cfgDefaults,      \* Config.defaults as a JSON tree
  settings,         \* settings.comboChartConfig: the stored JSON text, or null
  savedFrom,        \* history: Config.current as it was when settings was written
  merged,           \* history: argument and result of the last Config.merge in load
  nSets,            \* number of Config.set calls made
  dataTimers,       \* live timeouts of the debounced data callback: ticks left
  loads,            \* loadAndRenderChart calls waiting for DataHandler.getData()
  panel,            \* the element shown: "loading", "config", "chart", "error"
  hidden,           \* the elements whose classList holds 'hidden'
  dataVersion,      \* history: number of worksheet events so far
  sinceEvent,       \* history: ticks since the last worksheet event
  burst,            \* history: the event types of the current burst
  reloads,          \* history: reloads started since the burst's first event
  settled,          \* history: the load that settled last, with its outcome
  columns,          \* dataTable.columns of the worksheet's summary data
  fieldConfig,      \* Config.current's dimension, bar1Measure, bar2Measure, lineMeasure
  fetched,          \* what DataHandler.getData() returned last
  dialog,           \* the dialog: "closed", "open", or its close payload
  dlgConfig,        \* the dialog's config, a JSON tree
  selects,          \* the Bar 1, Bar 2 and Line selects: options and value
  dlgTimers,        \* pending timeouts: "preview" (dialog), "settings" (page)
  session           \* history: settings at the dialog's opening, Apply or Save
                    \* pressed, Config.load() run by the page since then

renderVars == <<Config_current, rect, resizeTimeout, data, originalData, config,
                isFirstRender, height, xScale, yScaleLeft, yScaleRight,
                barsGroup, labelsGroup, lineGroup, yAxisLeftGroup, yAxisRightGroup,
                worksheet, lastArgs, lastOp, lastLegendPosition, legendTimers,
                aliased, clock, resizeDone>>

configVars == <<cfgTree, cfgDefaults, settings, savedFrom, merged, nSets>>

mainVars == <<dataTimers, loads, panel, hidden, dataVersion, sinceEvent, burst, reloads, settled>>

\* what the chart's operations leave alone, what Config's do and what the
\* page's do
fieldVars == <<columns, fieldConfig, fetched>>

dialogVars == <<dialog, dlgConfig, selects, dlgTimers, session>>

outsidePage == <<configVars, mainVars, fieldVars, dialogVars>>
outsideRender == <<outsidePage, clock, resizeDone>>
outsideConfig == <<renderVars, mainVars, fieldVars>>
outsideMain == <<configVars, fieldVars, dialogVars, clock, resizeDone>>
outsideFields == <<configVars, dataTimers, loads, dataVersion, sinceEvent, burst,
                   reloads, settled, dialogVars, clock, resizeDone>>
outsideDialog == <<renderVars, configVars, mainVars, fieldVars>>

-----------------------------------------------------------------------------
(* Bounds *)

MaxRows == 3        \* longest row array handed to render
MaxStack == 2       \* longest chain of translate() terms kept on a tick label
MaxSets == 2        \* most Config.set calls in a run of the configuration
MaxEvents == 3      \* most worksheet events in a run of the page
MaxLoads == 2       \* most loads waiting for their data at a time
MaxCols == 4        \* most columns in the worksheet's summary data
MaxClicks == 4      \* most clicks and selections made in the dialog in a run

-----------------------------------------------------------------------------
(* Values *)

NULL == <<>>
Some(v) == <<v>>

FP == 100           \* fixed point: domain values are hundredths

Max2(a, b) == IF a >= b THEN a ELSE b
Min2(a, b) == IF a <= b THEN a ELSE b

RECURSIVE SeqMax(_)
SeqMax(s) == IF Len(s) = 1 THEN s[1] ELSE Max2(s[1], SeqMax(Tail(s)))

RECURSIVE SeqMin(_)
SeqMin(s) == IF Len(s) = 1 THEN s[1] ELSE Min2(s[1], SeqMin(Tail(s)))

RECURSIVE Pow10(_)
Pow10(n) == IF n = 0 THEN 1 ELSE 10 * Pow10(n - 1)

RECURSIVE Reverse(_)
Reverse(s) == IF s = <<>> THEN <<>> ELSE Append(Reverse(Tail(s)), Head(s))

-----------------------------------------------------------------------------
(* Rows.  One row per dimension value; the worksheet's rows are drawn from  *)
(* RowPool.                                                                 *)

RowPool ==
  { [dimension |-> "Jan 2024", bar1Value |-> 10,  bar2Value |-> 20, lineValue |-> 5],
    [dimension |-> "Feb 2024", bar1Value |-> 30,  bar2Value |-> 5,  lineValue |-> 15],
    [dimension |-> "Mar 2024", bar1Value |-> 100, bar2Value |-> 0,  lineValue |-> 50],
    [dimension |-> "Apple",    bar1Value |-> 0,   bar2Value |-> 0,  lineValue |-> 120] }

\* row arrays of distinct pool rows, 1..MaxRows long
RowArrays ==
  { s \in UNION { [1..n -> RowPool] : n \in 1..MaxRows } :
      \A i, j \in DOMAIN s : i # j => s[i].dimension # s[j].dimension }

\* the same row sets, each in one order only (by bar1Value)
OrderedRowArrays ==
  { s \in RowArrays : \A i, j \in DOMAIN s : i < j => s[i].bar1Value < s[j].bar1Value }

\* an array object: ref tells a copy made by createScales from an array
\* handed in by a caller (render compares arrays by reference)
InputArray(rows) == [ref |-> "input", rows |-> rows]
SortedArray(rows) == [ref |-> "sorted", rows |-> rows]

-----------------------------------------------------------------------------
(* Sorting, createScales lines 229-273 *)

\* new Date(str).getTime(), then the "Month YYYY" fallback: days since epoch
ParseDate(str) ==
  CASE str = "Jan 2024" -> Some(19723)
    [] str = "Feb 2024" -> Some(19754)
    [] str = "Mar 2024" -> Some(19783)
    [] OTHER -> NULL

\* rank of a string in localeCompare order
Collate(str) ==
  CASE str = "Apple" -> 1
    [] str = "Feb 2024" -> 2
    [] str = "Jan 2024" -> 3
    [] str = "Mar 2024" -> 4

LocaleCompare(a, b) == Collate(a) - Collate(b)

DateOrZero(str) == IF ParseDate(str) = NULL THEN 0 ELSE ParseDate(str)[1]

\* the comparator handed to Array.sort
Compare(a, b, sortOrder, isDateData) ==
  IF isDateData
    THEN IF sortOrder = "asc"
           THEN DateOrZero(a.dimension) - DateOrZero(b.dimension)
           ELSE DateOrZero(b.dimension) - DateOrZero(a.dimension)
    ELSE IF sortOrder = "asc"
           THEN LocaleCompare(a.dimension, b.dimension)
           ELSE 0 - LocaleCompare(a.dimension, b.dimension)

\* Array.prototype.sort is stable: insert x behind every element it does not
\* strictly precede
RECURSIVE InsertRow(_, _, _, _)
InsertRow(x, s, sortOrder, isDateData) ==
  IF s = <<>> THEN <<x>>
  ELSE IF Compare(x, Head(s), sortOrder, isDateData) < 0
         THEN <<x>> \o s
         ELSE <<Head(s)>> \o InsertRow(x, Tail(s), sortOrder, isDateData)

RECURSIVE ArraySort(_, _, _)
ArraySort(s, sortOrder, isDateData) ==
  IF s = <<>> THEN <<>>
  ELSE InsertRow(s[Len(s)], ArraySort(SubSeq(s, 1, Len(s) - 1), sortOrder, isDateData),
                 sortOrder, isDateData)

\* the date test left out: every dimension is compared as text
IsDateData_never(rows) == FALSE

IsDateData(rows) ==
  Cardinality({ i \in 1..Min2(3, Len(rows)) : ParseDate(rows[i].dimension) # NULL }) >= 2

SortRows(rows, sortOrder) ==
  IF sortOrder \in {"asc", "desc"} THEN ArraySort(rows, sortOrder, IsDateData(rows))
  ELSE IF sortOrder = "reverse" THEN Reverse(rows)
  ELSE rows

\* sorting the array the chart holds, which an earlier render has sorted
DataSource_cached(orig, dat) == dat[1]

\* const dataSource = this.originalData || this.data
DataSource(orig, dat) == IF orig # NULL THEN orig[1] ELSE dat[1]

-----------------------------------------------------------------------------
(* d3.scaleLinear as createScales uses it: domain, range, nice, ticks *)

RECURSIVE Log10Floor(_)
Log10Floor(n) == IF n < 10 THEN 0 ELSE 1 + Log10Floor(n \div 10)

\* d3 tickIncrement(start, stop, 10) for start < stop, in hundredths.
\* step = span / 10, power = floor(log10(step)), error = step / 10^power;
\* the factor is 10, 5, 2 or 1 as error >= sqrt(50), sqrt(10), sqrt(2).
\* Domain values are multiples of 10 hundredths, so a non-empty span is >= 10
\* and the step is a whole number of hundredths.  0 stands for the NaN step
\* of an empty span.
TickIncrement(start, stop) ==
  LET span == stop - start
      q == Log10Floor(span)
      e10 == (70710678 \div Pow10(7 - q)) + 1
      e5 == (31622776 \div Pow10(7 - q)) + 1
      e2 == (14142135 \div Pow10(7 - q)) + 1
      factor == IF span >= e10 THEN 10 ELSE IF span >= e5 THEN 5
                ELSE IF span >= e2 THEN 2 ELSE 1
  IN IF span < 10 THEN 0 ELSE factor * Pow10(q - 1)

FloorTo(v, step) == (v \div step) * step
CeilTo(v, step) == 0 - (((0 - v) \div step) * step)

\* the loop of scale.nice(): at most 10 rounds, the domain is replaced only
\* when the step repeats; NULL when the loop leaves the domain alone
RECURSIVE NiceLoop(_, _, _, _)
NiceLoop(start, stop, prestep, maxIter) ==
  IF maxIter = 0 THEN NULL
  ELSE LET step == TickIncrement(start, stop)
       IN IF step = prestep THEN Some(<<start, stop>>)
          ELSE IF step > 0
                 THEN NiceLoop(FloorTo(start, step), CeilTo(stop, step), step, maxIter - 1)
                 ELSE NULL

Nice(dom) ==
  LET start == Min2(dom[1], dom[2])
      stop == Max2(dom[1], dom[2])
      r == NiceLoop(start, stop, -1, 10)
  IN IF r = NULL THEN dom
     ELSE IF dom[2] < dom[1] THEN <<r[1][2], r[1][1]>> ELSE r[1]

\* d3.scaleLinear().domain(dom).range(rng).nice(); given records the domain
\* handed to the scale before nice() rounds it
ScaleLinear(dom, rng) == [given |-> dom, domain |-> Nice(dom), range |-> rng]

\* scale(v) as numerator / ScaleDen(s); v in hundredths.  A scale whose
\* domain is a single value maps everything to the middle of its range.
ScaleDen(s) ==
  IF s.domain[2] = s.domain[1] THEN 2 ELSE s.domain[2] - s.domain[1]

ScaleNum(s, v) ==
  IF s.domain[2] = s.domain[1] THEN s.range[1] + s.range[2]
  ELSE s.range[1] * (s.domain[2] - s.domain[1])
       + (v - s.domain[1]) * (s.range[2] - s.range[1])

\* scale.ticks(10): the multiples of the step inside the domain, in domain order
Ticks(s) ==
  LET start == Min2(s.domain[1], s.domain[2])
      stop == Max2(s.domain[1], s.domain[2])
      step == TickIncrement(start, stop)
      first == CeilTo(start, step) \div step
      last == FloorTo(stop, step) \div step
      up == [i \in 1..(last - first + 1) |-> (first + i - 1) * step]
  IN IF start = stop THEN <<start>>
     ELSE IF s.domain[2] < s.domain[1] THEN Reverse(up) ELSE up

-----------------------------------------------------------------------------
(* The configuration tree as render reads it.  Keys that Config.defaults    *)
(* does not list (includeZero, labelOffsetX/Y, line.verticalPosition,       *)
(* forceAnimationPreview) carry the value the code falls back to; barGap    *)
(* and barWidth are undefined (NULL) until a stored configuration has them. *)

Defaults ==
  [ barStyle |-> "grouped",
    axisMode |-> "dual",
    syncDualAxis |-> FALSE,
    animation |-> [enabled |-> TRUE, duration |-> 500],
    forceAnimationPreview |-> FALSE,
    title |-> [show |-> TRUE],
    line |-> [verticalPosition |-> "auto"],
    points |-> [show |-> TRUE],
    barGap |-> NULL,
    barWidth |-> NULL,
    barLabels |-> [show |-> FALSE, position |-> "top", offsetX |-> 0, offsetY |-> 0],
    legend |-> [show |-> TRUE, position |-> "bottom"],
    xAxis |-> [sort |-> "default", rotation |-> 0, showTitle |-> TRUE],
    yAxisLeft |-> [show |-> TRUE, showTitle |-> TRUE, min |-> NULL, max |-> NULL,
                   includeZero |-> TRUE, labelOffsetX |-> 0, labelOffsetY |-> 0],
    yAxisRight |-> [show |-> TRUE, showTitle |-> TRUE, min |-> NULL, max |-> NULL,
                    includeZero |-> TRUE, labelOffsetX |-> 0, labelOffsetY |-> 0] ]

\* Config.get(path) on a tree whose path exists
RECURSIVE GetPath(_, _)
GetPath(obj, keys) ==
  IF Len(keys) = 1 THEN obj[keys[1]] ELSE GetPath(obj[keys[1]], Tail(keys))

\* Config.set(path, value) on a tree whose path exists
RECURSIVE SetPath(_, _, _)
SetPath(obj, keys, value) ==
  IF Len(keys) = 1 THEN [obj EXCEPT ![keys[1]] = value]
  ELSE [obj EXCEPT ![keys[1]] = SetPath(obj[keys[1]], Tail(keys), value)]

-----------------------------------------------------------------------------
(* updateDimensions, lines 98-141: the plot height in px *)

Clamp(lo, hi, v) == Max2(lo, Min2(hi, v))

\* baseMargin * f, baseMargin = min(w, h) * 0.08, f in thousandths
BaseMarginTimes(r, f) == (Min2(r[1], r[2]) * 8 * f) \div 100000

PlotHeight(cfg, r) ==
  LET top == IF cfg.title.show THEN Clamp(25, 45, BaseMarginTimes(r, 800)) ELSE 20
      xRotation == IF cfg.xAxis.rotation < 0 THEN 0 - cfg.xAxis.rotation
                   ELSE cfg.xAxis.rotation
      bottomBase == IF xRotation = 0 THEN 45 ELSE IF xRotation <= 45 THEN 60 ELSE 80
      bottomExtra == IF cfg.xAxis.showTitle THEN 20 ELSE 0
      bottom == Clamp(40, 110, bottomBase + bottomExtra)
  IN Max2(0, r[2] - top - bottom)

\* lines 117-131: the plot width in px
PlotWidth(cfg, r) ==
  LET left == Clamp(70, 110, BaseMarginTimes(r, 1400))
              + (IF cfg.yAxisLeft.showTitle THEN 25 ELSE 0)
      right == IF cfg.axisMode = "dual"
                 THEN Clamp(50, 80, BaseMarginTimes(r, 1100))
                      + (IF cfg.yAxisRight.showTitle THEN 20 ELSE 0)
                 ELSE 20
  IN Max2(0, r[1] - left - right)

-----------------------------------------------------------------------------
(* createScales, lines 229-355 *)

BarTop(d, barStyle) ==
  IF barStyle = "stacked" THEN d.bar1Value + d.bar2Value
  ELSE Max2(d.bar1Value, d.bar2Value)

BarMaxOf(rows, barStyle) == SeqMax([i \in 1..Len(rows) |-> BarTop(rows[i], barStyle)])
BarMinOf(rows) == SeqMin([i \in 1..Len(rows) |-> Min2(rows[i].bar1Value, rows[i].bar2Value)])
LineMaxOf(rows) == SeqMax([i \in 1..Len(rows) |-> rows[i].lineValue])
LineMinOf(rows) == SeqMin([i \in 1..Len(rows) |-> rows[i].lineValue])

\* axis.min !== null ? axis.min : auto      (hundredths)
OrAuto(opt, auto) == IF opt # NULL THEN opt[1] * FP ELSE auto

\* axis.includeZero !== false ? 0 : lowest * 0.9
AutoMin(axis, lowest) == IF axis.includeZero THEN 0 ELSE lowest * 90

LeftDomain(rows, cfg) ==
  << OrAuto(cfg.yAxisLeft.min, AutoMin(cfg.yAxisLeft, BarMinOf(rows))),
     OrAuto(cfg.yAxisLeft.max, BarMaxOf(rows, cfg.barStyle) * 110) >>

\* the combined maximum taken from the bars alone
SyncDomain_barsOnly(rows, cfg) ==
  LET combinedMax == BarMaxOf(rows, cfg.barStyle) * 110
      leftAutoMin == AutoMin(cfg.yAxisLeft, BarMinOf(rows))
      rightAutoMin == AutoMin(cfg.yAxisRight, LineMinOf(rows))
      syncMin == Min2(OrAuto(cfg.yAxisLeft.min, leftAutoMin),
                      OrAuto(cfg.yAxisRight.min, rightAutoMin))
      syncMax == Max2(OrAuto(cfg.yAxisLeft.max, combinedMax),
                      OrAuto(cfg.yAxisRight.max, combinedMax))
  IN <<syncMin, syncMax>>

SyncDomain(rows, cfg) ==
  LET combinedMax == Max2(BarMaxOf(rows, cfg.barStyle), LineMaxOf(rows)) * 110
      leftAutoMin == AutoMin(cfg.yAxisLeft, BarMinOf(rows))
      rightAutoMin == AutoMin(cfg.yAxisRight, LineMinOf(rows))
      syncMin == Min2(OrAuto(cfg.yAxisLeft.min, leftAutoMin),
                      OrAuto(cfg.yAxisRight.min, rightAutoMin))
      syncMax == Max2(OrAuto(cfg.yAxisLeft.max, combinedMax),
                      OrAuto(cfg.yAxisRight.max, combinedMax))
  IN <<syncMin, syncMax>>

\* the right maximum taken from bars and line, as the combined maximum is
RightDomain_combined(rows, cfg) ==
  << OrAuto(cfg.yAxisRight.min, AutoMin(cfg.yAxisRight, LineMinOf(rows))),
     OrAuto(cfg.yAxisRight.max,
            Max2(BarMaxOf(rows, cfg.barStyle), LineMaxOf(rows)) * 110) >>

RightDomain(rows, cfg) ==
  << OrAuto(cfg.yAxisRight.min, AutoMin(cfg.yAxisRight, LineMinOf(rows))),
     OrAuto(cfg.yAxisRight.max, LineMaxOf(rows) * 110) >>

\* shared axis: yAxisLeft.max || combinedMax treats a max of 0 like null
SharedDomain(rows, cfg) ==
  LET combinedMax == Max2(BarMaxOf(rows, cfg.barStyle), LineMaxOf(rows)) * 110
      sharedMin == IF cfg.yAxisLeft.includeZero THEN 0
                   ELSE Min2(BarMinOf(rows), LineMinOf(rows)) * 90
  IN << OrAuto(cfg.yAxisLeft.min, sharedMin),
        IF cfg.yAxisLeft.max # NULL /\ cfg.yAxisLeft.max[1] # 0
          THEN cfg.yAxisLeft.max[1] * FP ELSE combinedMax >>

\* { upper: 0.15, middle: 0.35, lower: 0.55, bottom: 0.75 }[vertPos] || 0
RangeTopFraction(vertPos) ==
  CASE vertPos = "upper" -> 15
    [] vertPos = "middle" -> 35
    [] vertPos = "lower" -> 55
    [] vertPos = "bottom" -> 75
    [] OTHER -> 0

LineRange(cfg, h) ==
  IF cfg.line.verticalPosition \notin {"auto", "top"}
    THEN <<h, (h * RangeTopFraction(cfg.line.verticalPosition)) \div 100>>
    ELSE <<h, 0>>

YScaleLeftOf(rows, cfg, h) ==
  IF cfg.axisMode = "dual"
    THEN IF cfg.syncDualAxis THEN ScaleLinear(SyncDomain(rows, cfg), <<h, 0>>)
         ELSE ScaleLinear(LeftDomain(rows, cfg), <<h, 0>>)
    ELSE ScaleLinear(SharedDomain(rows, cfg), <<h, 0>>)

\* the right scale built from the line's own domain in every axis mode
YScaleRightOf_independent(rows, cfg, h) ==
  [ (IF cfg.syncDualAxis THEN ScaleLinear(SyncDomain(rows, cfg), <<h, 0>>)
     ELSE ScaleLinear(RightDomain(rows, cfg), <<h, 0>>))
    EXCEPT !.range = LineRange(cfg, h) ]

YScaleRightOf(rows, cfg, h) ==
  IF cfg.axisMode = "dual"
    THEN [ (IF cfg.syncDualAxis THEN ScaleLinear(SyncDomain(rows, cfg), <<h, 0>>)
            ELSE ScaleLinear(RightDomain(rows, cfg), <<h, 0>>))
           EXCEPT !.range = LineRange(cfg, h) ]
    ELSE YScaleLeftOf(rows, cfg, h)

-----------------------------------------------------------------------------
(* renderAxes, lines 552-686: the tick labels of a y axis.                  *)
(* d3's axis joins the ticks to the .tick elements already in the group,    *)
(* keyed by their position under the new scale; it sets no transform on a   *)
(* tick's text, so a label that survives the join keeps the one it has.     *)

\* the transform attribute a tick label for value t starts from
ExistingTransform(group, scale, t) ==
  IF scale.domain[1] = scale.domain[2]
    THEN IF group # <<>> THEN group[1].transform ELSE <<>>
    ELSE IF \E j \in DOMAIN group : group[j].v = t
           THEN group[CHOOSE j \in DOMAIN group : group[j].v = t].transform
           ELSE <<>>

\* el.attr('transform', `${existingTransform} translate(${x}, ${y})`)
OffsetTransform(existing, axis) ==
  IF axis.labelOffsetX # 0 \/ axis.labelOffsetY # 0
    THEN Append(existing, <<axis.labelOffsetX, axis.labelOffsetY>>)
    ELSE existing

RenderYAxis(group, scale, axis, shown) ==
  IF shown
    THEN LET tv == Ticks(scale)
         IN [i \in 1..Len(tv) |->
               [v |-> tv[i],
                transform |-> OffsetTransform(ExistingTransform(group, scale, tv[i]), axis)]]
    ELSE <<>>

-----------------------------------------------------------------------------
(* getAnimation, lines 146-155 *)

\* the full duration on every render
GetAnimation_alwaysFull(cfg, first) ==
  [enabled |-> cfg.animation.enabled, duration |-> cfg.animation.duration]

GetAnimation(cfg, first) ==
  [enabled |-> cfg.animation.enabled,
   duration |-> IF first \/ cfg.forceAnimationPreview THEN cfg.animation.duration
                ELSE cfg.animation.duration \div 2]

-----------------------------------------------------------------------------
(* renderBars, lines 692-877: y and height of each rect as numerators over  *)
(* ScaleDen(yScaleLeft); with animation on they are the transition's        *)
(* targets.                                                                 *)

\* the second stacked segment measured from the x axis, as a grouped bar is
BarRect_fromAxis(d, barStyle, animated, ys, h) ==
  LET y1 == ScaleNum(ys, d.bar1Value * FP)
      y2 == ScaleNum(ys, d.bar2Value * FP)
      y12 == ScaleNum(ys, (d.bar1Value + d.bar2Value) * FP)
      hh == h * ScaleDen(ys)
  IN [dimension |-> d.dimension,
      start1 |-> IF animated THEN <<hh, 0>> ELSE <<y1, hh - y1>>,
      y1 |-> y1, height1 |-> hh - y1,
      start2 |-> IF animated THEN <<IF barStyle = "grouped" THEN hh ELSE y1, 0>>
                 ELSE <<IF barStyle = "grouped" THEN y2 ELSE y12,
                        IF barStyle = "grouped" THEN hh - y2 ELSE hh - y12>>,
      y2 |-> IF barStyle = "grouped" THEN y2 ELSE y12,
      height2 |-> IF barStyle = "grouped" THEN hh - y2 ELSE hh - y12]

\* start<n> is <<y, height>> as first set on the rect: the transition's
\* starting point when animated, else the final attributes
BarRect(d, barStyle, animated, ys, h) ==
  LET y1 == ScaleNum(ys, d.bar1Value * FP)
      y2 == ScaleNum(ys, d.bar2Value * FP)
      y12 == ScaleNum(ys, (d.bar1Value + d.bar2Value) * FP)
      hh == h * ScaleDen(ys)
  IN IF barStyle = "grouped"
       THEN [dimension |-> d.dimension,
             start1 |-> IF animated THEN <<hh, 0>> ELSE <<y1, hh - y1>>,
             y1 |-> y1, height1 |-> hh - y1,
             start2 |-> IF animated THEN <<hh, 0>> ELSE <<y2, hh - y2>>,
             y2 |-> y2, height2 |-> hh - y2]
       ELSE [dimension |-> d.dimension,
             start1 |-> IF animated THEN <<hh, 0>> ELSE <<y1, hh - y1>>,
             y1 |-> y1, height1 |-> hh - y1,
             start2 |-> IF animated THEN <<y1, 0>> ELSE <<y12, y1 - y12>>,
             y2 |-> y12, height2 |-> y1 - y12]

\* d3.scaleBand().domain(n values).range([0, w]).padding(0.2), lines
\* 276-279 with barPadding at its default: step = w / (n + 0.2), the bands
\* start at w / (5n + 1) and are 4w / (5n + 1) wide.  Horizontal lengths are
\* whole numbers of 1 / XUnit(n) px.
XUnit(n) == 200 * (5 * n + 1)
Px(v, n) == v * XUnit(n)
BandWidth(w, n) == 800 * w
BandStart(w, n, i) == 200 * w * (1 + 5 * (i - 1))

\* this.config.barGap !== undefined ? this.config.barGap : 4
BarGap(cfg, n) == Px(IF cfg.barGap # NULL THEN cfg.barGap[1] ELSE 4, n)

\* renderBars, lines 700-710 and 793-796: the width of a bar and the x of
\* the two bars within the band
BarGeometry(cfg, band, n) ==
  LET barGap == BarGap(cfg, n)
      barWidthPercent == IF cfg.barWidth # NULL THEN cfg.barWidth[1] ELSE 100
  IN IF cfg.barStyle = "grouped"
       THEN LET autoBarWidth == (band - barGap) \div 2
                barWidth == (autoBarWidth * barWidthPercent) \div 100
                groupWidth == Min2(barWidth * 2 + barGap, band)
                groupOffset == (band - groupWidth) \div 2
            IN [width |-> barWidth, x1 |-> groupOffset,
                x2 |-> groupOffset + barWidth + barGap]
       ELSE LET autoStackWidth == band - Px(4, n)
                barWidth == (autoStackWidth * barWidthPercent) \div 100
                stackOffset == (band - barWidth) \div 2
            IN [width |-> barWidth, x1 |-> stackOffset, x2 |-> stackOffset]

\* x holds, per row, the start of its band and the x of its two rects
RenderBars(rows, cfg, ys, h, w, first) ==
  LET n == Len(rows)
      g == BarGeometry(cfg, BandWidth(w, n), n)
  IN [anim |-> GetAnimation(cfg, first),
      den |-> ScaleDen(ys),
      rects |-> [i \in 1..n |->
                   BarRect(rows[i], cfg.barStyle, cfg.animation.enabled, ys, h)],
      xden |-> XUnit(n),
      band |-> BandWidth(w, n),
      gap |-> BarGap(cfg, n),
      width |-> g.width,
      x |-> [i \in 1..n |-> [band |-> BandStart(w, n, i),
                              x1 |-> BandStart(w, n, i) + g.x1,
                              x2 |-> BandStart(w, n, i) + g.x2]]]

-----------------------------------------------------------------------------
(* renderLabels, lines 1011-1110: the bar labels.  x in 1 / XUnit(n) px, y  *)
(* as a numerator over twice the left scale's denominator.                  *)

\* lines 1021-1036: the x of the two labels within the band
LabelGeometry(cfg, band, n) ==
  LET barGap == BarGap(cfg, n)
      configBarWidth == IF cfg.barWidth # NULL THEN cfg.barWidth[1] ELSE 0
  IN IF cfg.barStyle = "grouped"
       THEN LET autoW == (band - barGap) \div 2
                barWidth == IF configBarWidth > 0 THEN Min2(Px(configBarWidth, n), autoW)
                            ELSE autoW
                groupWidth == barWidth * 2 + barGap
                groupOffset == (band - groupWidth) \div 2
            IN [x1 |-> groupOffset + barWidth \div 2,
                x2 |-> groupOffset + barWidth + barGap + barWidth \div 2]
       ELSE [x1 |-> band \div 2, x2 |-> band \div 2]

\* lines 1070-1077 and 1093-1102: baseY of a label whose bar has its top at
\* y (a numerator over den), doubled
LabelY(position, y, h, den) ==
  IF position = "top" THEN 2 * (y - 5 * den)
  ELSE IF position = "inside" THEN 2 * (y + 15 * den)
  ELSE 2 * y + (h * den - y)

RenderLabels(rows, cfg, ys, h, w) ==
  LET n == Len(rows)
      den == ScaleDen(ys)
      g == LabelGeometry(cfg, BandWidth(w, n), n)
      label(i) ==
        LET d == rows[i]
            top1 == ScaleNum(ys, d.bar1Value * FP)
            top2 == IF cfg.barStyle = "grouped" THEN ScaleNum(ys, d.bar2Value * FP)
                    ELSE ScaleNum(ys, (d.bar1Value + d.bar2Value) * FP)
        IN [x1 |-> BandStart(w, n, i) + g.x1 + Px(cfg.barLabels.offsetX, n),
            y1 |-> LabelY(cfg.barLabels.position, top1, h, den)
                   + 2 * den * cfg.barLabels.offsetY,
            x2 |-> BandStart(w, n, i) + g.x2 + Px(cfg.barLabels.offsetX, n),
            y2 |-> LabelY(cfg.barLabels.position, top2, h, den)
                   + 2 * den * cfg.barLabels.offsetY]
  IN [xden |-> XUnit(n), yden |-> 2 * den,
      labels |-> IF cfg.barLabels.show THEN [i \in 1..n |-> label(i)] ELSE <<>>]

-----------------------------------------------------------------------------
(* renderLine, lines 882-1007: the y of each point of the path *)

LineScale(cfg, ysLeft, ysRight) == IF cfg.axisMode = "dual" THEN ysRight ELSE ysLeft

\* the transitions of the path and of the markers, lines 927-946 and
\* 997-1005, in tenths of a millisecond: the path's draw-in lasts
\* anim.duration * 1.2, marker i (from 0) fades in after a delay of
\* anim.duration * 0.8 + i * 30 for anim.duration * 0.5
LineTransitions(anim, markers) ==
  IF anim.enabled
    THEN Some([line |-> anim.duration * 12,
               delay |-> [i \in 1..markers |-> anim.duration * 8 + (i - 1) * 300],
               fade |-> anim.duration * 5])
    ELSE NULL

RenderLine(rows, cfg, ysLeft, ysRight, first) ==
  LET ys == LineScale(cfg, ysLeft, ysRight)
      markers == IF cfg.points.show THEN Len(rows) ELSE 0
  IN [den |-> ScaleDen(ys),
      points |-> [i \in 1..Len(rows) |-> ScaleNum(ys, rows[i].lineValue * FP)],
      markers |-> markers,
      transitions |-> LineTransitions(GetAnimation(cfg, first), markers)]

-----------------------------------------------------------------------------
(* renderLegend, lines 1176-1251: the position seen and the deferred        *)
(* re-render; nothing of it runs when the legend is hidden                  *)

LegendPosition(cfg, last) ==
  IF cfg.legend.show THEN Some(cfg.legend.position) ELSE last

\* if (prevPosition && prevPosition !== position) setTimeout(..., 50)
LegendTimeouts(cfg, last, timers) ==
  IF cfg.legend.show /\ last # NULL /\ last[1] # cfg.legend.position
    THEN timers \cup {cfg.legend.position}
    ELSE timers

-----------------------------------------------------------------------------
(* ComboChart.render, lines 196-224 *)

\* data !== this.data is a comparison of references: it is false only when
\* the caller hands in the array the chart holds
SameRef(arr, dat) == dat # NULL /\ arr.ref = "sorted" /\ arr = dat[1]

\* no tick label carries MaxStack translate() terms yet
StackRoom ==
  /\ \A i \in DOMAIN yAxisLeftGroup : Len(yAxisLeftGroup[i].transform) < MaxStack
  /\ \A i \in DOMAIN yAxisRightGroup : Len(yAxisRightGroup[i].transform) < MaxStack

Render(arr, cfg) ==
  LET orig == IF SameRef(arr, data) THEN originalData ELSE Some(arr)
      first == isFirstRender \/ cfg.forceAnimationPreview
      h == PlotHeight(cfg, rect)
      w == PlotWidth(cfg, rect)
      rows == SortRows(DataSource(orig, Some(arr)).rows, cfg.xAxis.sort)
      ysl == YScaleLeftOf(rows, cfg, h)
      ysr == YScaleRightOf(rows, cfg, h)
  IN /\ StackRoom
     /\ originalData' = orig
     /\ data' = Some(SortedArray(rows))
     /\ config' = Some(cfg)
     /\ height' = h
     /\ xScale' = [i \in 1..Len(rows) |-> rows[i].dimension]
     /\ yScaleLeft' = Some(ysl)
     /\ yScaleRight' = Some(ysr)
     /\ yAxisLeftGroup' = RenderYAxis(yAxisLeftGroup, ysl, cfg.yAxisLeft, cfg.yAxisLeft.show)
     /\ yAxisRightGroup' = RenderYAxis(yAxisRightGroup, ysr, cfg.yAxisRight,
                                       cfg.axisMode = "dual" /\ cfg.yAxisRight.show)
     /\ barsGroup' = Some(RenderBars(rows, cfg, ysl, h, w, first))
     /\ labelsGroup' = Some(RenderLabels(rows, cfg, ysl, h, w))
     /\ lineGroup' = Some(RenderLine(rows, cfg, ysl, ysr, first))
     /\ isFirstRender' = FALSE
     /\ lastLegendPosition' = LegendPosition(cfg, lastLegendPosition)
     /\ legendTimers' = LegendTimeouts(cfg, lastLegendPosition, legendTimers)
     /\ lastArgs' = Some([rows |-> IF SameRef(arr, data) THEN lastArgs[1].rows ELSE arr.rows,
                          config |-> cfg, rect |-> rect])

\* main.js loadAndRenderChart, lines 97-123, with the fetch returning the
\* worksheet's rows: ComboChart.render(result.data, result.fieldNames,
\* Config.current)
LoadAndRender ==
  /\ Render(InputArray(worksheet), Config_current)
  /\ lastOp' = "render"
  /\ aliased' = TRUE
  /\ UNCHANGED <<Config_current, rect, resizeTimeout, worksheet, outsideRender>>

\* the worksheet's data changes and the data listener (main.js lines
\* 128-139) reloads the chart
SummaryDataChanged(rows) ==
  /\ worksheet' = rows
  /\ Render(InputArray(rows), Config_current)
  /\ lastOp' = "render"
  /\ aliased' = TRUE
  /\ UNCHANGED <<Config_current, rect, resizeTimeout, outsideRender>>

\* the dialog has saved a changed setting; the settings listener (main.js
\* lines 144-153) runs Config.load() and reloads the chart
SettingsChanged(path, value) ==
  /\ GetPath(Config_current, path) # value
  /\ Config_current' = SetPath(Config_current, path, value)
  /\ Render(InputArray(worksheet), Config_current')
  /\ lastOp' = "render"
  /\ aliased' = TRUE
  /\ UNCHANGED <<rect, resizeTimeout, worksheet, outsideRender>>

\* setTimeout(..., 100) of setupResizeObserver, line 91, in ticks
ResizeTicks == 1

\* setupResizeObserver, lines 81-91: a notification (re)starts the timer
ResizeNotify(r) ==
  /\ rect' = r
  /\ resizeTimeout' = TRUE
  /\ clock' = IF clock = NULL THEN NULL ELSE Some(0)
  /\ UNCHANGED <<Config_current, data, originalData, config, isFirstRender, height,
                 xScale, yScaleLeft, yScaleRight, barsGroup, labelsGroup, lineGroup, yAxisLeftGroup,
                 yAxisRightGroup, worksheet, lastArgs, lastOp, lastLegendPosition,
                 legendTimers, aliased, resizeDone, outsidePage>>

\* the timer's callback, lines 84-90: render(this.data, this.fieldNames, this.config)
ResizeRender ==
  /\ resizeTimeout
  /\ clock # NULL => clock[1] = ResizeTicks
  /\ resizeTimeout' = FALSE
  /\ resizeDone' = IF clock = NULL THEN resizeDone
                   ELSE Some([at |-> clock[1], rendered |-> data # NULL,
                              hadData |-> lastArgs # NULL])
  /\ lastOp' = "resize"
  /\ IF data # NULL
       THEN Render(data[1], config[1])
       ELSE UNCHANGED <<data, originalData, config, isFirstRender, height, xScale,
                        yScaleLeft, yScaleRight, barsGroup, labelsGroup, lineGroup, yAxisLeftGroup,
                        yAxisRightGroup, lastArgs, lastLegendPosition, legendTimers>>
  /\ UNCHANGED <<Config_current, rect, worksheet, aliased, clock, outsidePage>>

\* 100 ms pass; a timeout that is due runs first, and so does the legend's
\* timeout of 50 ms
ResizeTick ==
  /\ clock # NULL
  /\ clock[1] <= ResizeTicks
  /\ ~(resizeTimeout /\ clock[1] = ResizeTicks)
  /\ legendTimers = {}
  /\ clock' = Some(clock[1] + 1)
  /\ UNCHANGED <<Config_current, rect, resizeTimeout, data, originalData, config,
                 isFirstRender, height, xScale, yScaleLeft, yScaleRight, barsGroup, labelsGroup,
                 lineGroup, yAxisLeftGroup, yAxisRightGroup, worksheet, lastArgs, lastOp,
                 lastLegendPosition, legendTimers, aliased, resizeDone, outsidePage>>

\* the timeout of renderLegend, lines 1246-1250: this.render() without
\* arguments.  render stores its undefined parameters in originalData, data,
\* fieldNames and config, then throws a TypeError on
\* config.forceAnimationPreview (line 207) before anything is drawn.
LegendRerender(position) ==
  /\ position \in legendTimers
  /\ legendTimers' = legendTimers \ {position}
  /\ IF lastLegendPosition = Some(position)
       THEN /\ originalData' = NULL
            /\ data' = NULL
            /\ config' = NULL
            /\ aliased' = FALSE
            /\ lastOp' = "legend"
       ELSE UNCHANGED <<originalData, data, config, aliased, lastOp>>
  /\ UNCHANGED <<Config_current, rect, resizeTimeout, isFirstRender, height, xScale,
                 yScaleLeft, yScaleRight, barsGroup, labelsGroup, lineGroup, yAxisLeftGroup,
                 yAxisRightGroup, worksheet, lastArgs, lastLegendPosition, outsideRender>>

\* a context-menu item, contextMenu.js lines 313-314 and 385-387:
\* Config.set(path, value) writes into the object Config.current, which is
\* the chart's config since the last render by the page; applyAndRefresh
\* then awaits Config.save() before the page reloads the chart
ConfigSet(path, value) ==
  /\ GetPath(Config_current, path) # value
  /\ Config_current' = SetPath(Config_current, path, value)
  /\ config' = IF aliased THEN Some(Config_current') ELSE config
  /\ lastOp' = "set"
  /\ UNCHANGED <<rect, resizeTimeout, data, originalData, isFirstRender, height, xScale,
                 yScaleLeft, yScaleRight, barsGroup, labelsGroup, lineGroup, yAxisLeftGroup,
                 yAxisRightGroup, worksheet, lastArgs, lastLegendPosition, legendTimers,
                 aliased, outsideRender>>

-----------------------------------------------------------------------------
(* Inputs *)

OneRect == { <<1000, 750>> }
TwoRects == { <<900, 350>>, <<1000, 750>> }

\* a filter change removes or adds one row, a sort in the worksheet swaps
\* two neighbours
Drop(s, i) == SubSeq(s, 1, i - 1) \o SubSeq(s, i + 1, Len(s))
Swap(s, i) == [k \in 1..Len(s) |-> IF k = i THEN s[i + 1] ELSE IF k = i + 1 THEN s[i] ELSE s[k]]

DataChanges(ws, arrays) ==
  { a \in arrays :
      \/ \E i \in 1..Len(ws) : Len(ws) > 1 /\ a = Drop(ws, i)
      \/ \E i \in 1..Len(a) : Len(a) > 1 /\ ws = Drop(a, i)
      \/ \E i \in 1..(Len(ws) - 1) : a = Swap(ws, i) }

SortEdits ==
  {<<"xAxis", "sort">>} \X {"default", "asc", "desc", "reverse"}

AxisEdits ==
  ({<<"yAxisLeft", "labelOffsetX">>} \X {0, 5})
  \cup ({<<"yAxisRight", "labelOffsetY">>} \X {0, 3})
  \cup ({<<"yAxisLeft", "show">>} \X BOOLEAN)

SharedEdits ==
  ({<<"axisMode">>} \X {"dual", "shared"})
  \cup ({<<"syncDualAxis">>} \X BOOLEAN)
  \cup ({<<"yAxisRight", "min">>} \X {NULL, Some(10)})
  \cup ({<<"yAxisRight", "max">>} \X {NULL, Some(200)})
  \cup ({<<"yAxisRight", "includeZero">>} \X BOOLEAN)
  \cup ({<<"line", "verticalPosition">>} \X {"auto", "middle"})

DualEdits ==
  ({<<"barStyle">>} \X {"grouped", "stacked"})
  \cup ({<<"syncDualAxis">>} \X BOOLEAN)
  \cup ({<<"yAxisLeft", "max">>} \X {NULL, Some(200)})
  \cup ({<<"yAxisRight", "max">>} \X {NULL, Some(40)})
  \cup ({<<"yAxisLeft", "includeZero">>, <<"yAxisRight", "includeZero">>} \X BOOLEAN)
  \cup ({<<"animation", "enabled">>} \X BOOLEAN)

-----------------------------------------------------------------------------
(* Config (unnamed/part_002) as a JSON tree.  A node is a leaf holding a    *)
(* JavaScript value, written as its literal, or an object holding its own   *)
(* keys.  owner tells the objects of the Config.defaults graph from objects *)
(* made later (by JSON.parse or a {} literal): two trees share an object    *)
(* only if both hold a node of the same owner "defaults".  The tree is a    *)
(* cut of Config.defaults: one string, one axis with its range and format,  *)
(* one font object and the bar labels.                                      *)

Leaf(v) == [t |-> "leaf", v |-> v]
Obj(owner, kids) == [t |-> "obj", owner |-> owner, kids |-> kids]
Absent == [t |-> "absent"]

NoKids == [k \in {} |-> Absent]

\* the keys of the model, in the order Object.keys lists them
KeyOrder == <<"dimension", "bar1Measure", "bar2Measure", "lineMeasure",
              "barStyle", "yAxisLeft", "titleFont", "barLabels",
              "min", "max", "format", "size", "show", "offsetX",
              "forceAnimationPreview">>

Keys == { KeyOrder[i] : i \in DOMAIN KeyOrder }

\* the own keys of an object, in order
OwnKeys(o) == SelectSeq(KeyOrder, LAMBDA k : k \in DOMAIN o.kids)

Put(o, k, n) ==
  [o EXCEPT !.kids = [x \in (DOMAIN o.kids) \cup {k} |-> IF x = k THEN n ELSE o.kids[x]]]

\* a value JavaScript takes as true
Truthy(n) == n.t = "obj" \/ (n.t = "leaf" /\ n.v \notin {"null", "false", "0", "NaN", "undefined", "''"})

\* obj[k]
Prop(o, k) == IF o.t = "obj" /\ k \in DOMAIN o.kids THEN o.kids[k] ELSE Absent

DefaultsTree ==
  Obj("defaults",
      [k \in {"barStyle", "yAxisLeft", "titleFont", "barLabels"} |->
         CASE k = "barStyle" -> Leaf("'grouped'")
           [] k = "yAxisLeft" ->
                Obj("defaults", [j \in {"min", "max", "format"} |->
                                   IF j = "format" THEN Leaf("'auto'") ELSE Leaf("null")])
           [] k = "titleFont" -> Obj("defaults", [j \in {"size"} |-> Leaf("18")])
           [] k = "barLabels" ->
                Obj("defaults", [j \in {"show", "offsetX"} |->
                                   IF j = "show" THEN Leaf("false") ELSE Leaf("0")])])

\* JSON.stringify: the text as a sequence of tokens, "{" key value ... "}".
\* NaN and the infinities are written as null, a key holding undefined is
\* left out.
RECURSIVE JsonStringify(_)
RECURSIVE StringifyMembers(_, _)

StringifyMembers(o, keys) ==
  IF keys = <<>> THEN <<>>
  ELSE LET k == Head(keys)
           n == o.kids[k]
       IN (IF n.t = "leaf" /\ n.v = "undefined" THEN <<>>
           ELSE <<k>> \o JsonStringify(n))
          \o StringifyMembers(o, Tail(keys))

JsonStringify(n) ==
  IF n.t = "leaf"
    THEN IF n.v \in {"NaN", "Infinity", "-Infinity"} THEN <<"null">> ELSE <<n.v>>
    ELSE <<"{">> \o StringifyMembers(n, OwnKeys(n)) \o <<"}">>

\* JSON.parse of such a text: [node, rest]; every object it makes is new
RECURSIVE ParseValue(_)
RECURSIVE ParseMembers(_, _)

ParseMembers(toks, o) ==
  IF Head(toks) = "}" THEN [node |-> o, rest |-> Tail(toks)]
  ELSE LET r == ParseValue(Tail(toks))
       IN ParseMembers(r.rest, Put(o, Head(toks), r.node))

ParseValue(toks) ==
  IF Head(toks) = "{" THEN ParseMembers(Tail(toks), Obj("fresh", NoKids))
  ELSE [node |-> Leaf(Head(toks)), rest |-> Tail(toks)]

JsonParse(text) == ParseValue(text).node

\* JSON.parse(JSON.stringify(x))
DeepCopy(n) == JsonParse(JsonStringify(n))

\* const result = JSON.parse(JSON.stringify(defaults))
MergeStart(defaults) == DeepCopy(defaults)

\* JSON.parse throws a SyntaxError unless the text is one whole value: where
\* a value ends, or NULL if it does not
RECURSIVE ValueEnd(_)
RECURSIVE MembersEnd(_)

MembersEnd(toks) ==
  IF toks = <<>> THEN NULL
  ELSE IF Head(toks) = "}" THEN Some(Tail(toks))
  ELSE IF Head(toks) = "{" THEN NULL
  ELSE LET r == ValueEnd(Tail(toks))
       IN IF r = NULL THEN NULL ELSE MembersEnd(r[1])

ValueEnd(toks) ==
  IF toks = <<>> THEN NULL
  ELSE IF Head(toks) = "{" THEN MembersEnd(Tail(toks))
  ELSE IF Head(toks) = "}" THEN NULL
  ELSE Some(Tail(toks))

SyntaxError(text) == ValueEnd(text) # Some(<<>>)

\* a merge that copies the saved object alone and takes nothing from the
\* defaults
Merge_savedOnly(defaults, overrides) ==
  IF overrides.t = "obj" THEN DeepCopy(overrides) ELSE MergeStart(defaults)

\* Config.merge(defaults, overrides), lines 546-560.  A result that is no
\* object (the copy of a string or number) takes no property: the
\* assignment is dropped.
RECURSIVE Merge(_, _)
RECURSIVE MergeKeys(_, _, _)

MergeKeys(result, overrides, keys) ==
  IF keys = <<>> \/ result.t # "obj" THEN result
  ELSE LET k == Head(keys)
           ov == overrides.kids[k]
           base == IF Truthy(Prop(result, k)) THEN result.kids[k] ELSE Obj("fresh", NoKids)
           next == IF ov.t = "obj" THEN Put(result, k, Merge(base, ov))
                   ELSE Put(result, k, ov)
       IN MergeKeys(next, overrides, Tail(keys))

Merge(defaults, overrides) ==
  IF overrides.t = "obj"
    THEN MergeKeys(MergeStart(defaults), overrides, OwnKeys(overrides))
    ELSE MergeStart(defaults)

\* an object of the defaults graph is part of the tree
HoldsDefaults(n) ==
  /\ n.t = "obj"
  /\ \/ n.owner = "defaults"
     \/ \E k \in DOMAIN n.kids : n.kids[k].t = "obj" /\ n.kids[k].owner = "defaults"

\* what a write into the merge's result leaves of Config.defaults: the
\* defaults are written to only if the result is the defaults object itself
DefaultsAfterMerge(defaults, result) ==
  IF result.t = "obj" /\ result.owner = "defaults" THEN result ELSE defaults

\* ensureFontObjects, lines 491-527, for the font object and the bar labels
\* of the model: { ...defaults, ...this.current[key] } and the offset default
EnsureFontObjects(cur) ==
  LET fontDefaults == Obj("fresh", [j \in {"size"} |-> Leaf("18")])
      font == Prop(cur, "titleFont")
      font2 == IF ~Truthy(font) \/ font.t # "obj" THEN fontDefaults
               ELSE Obj("fresh", [j \in {"size"} \cup DOMAIN font.kids |->
                                    IF j \in DOMAIN font.kids THEN font.kids[j] ELSE Leaf("18")])
      c1 == Put(cur, "titleFont", font2)
      labels == IF Truthy(Prop(c1, "barLabels")) THEN c1.kids["barLabels"]
                ELSE Obj("fresh", NoKids)
      labels2 == IF labels.t = "obj"
                    /\ (Prop(labels, "offsetX") = Absent \/ Prop(labels, "offsetX") = Leaf("undefined"))
                   THEN Put(labels, "offsetX", Leaf("0"))
                   ELSE labels
  IN Put(c1, "barLabels", labels2)

\* Config.set(path, value), lines 565-577: a key on the way that holds a
\* falsy value is replaced by {}; a write into a string or number is dropped
RECURSIVE ConfigSetAt(_, _, _)
ConfigSetAt(obj, keys, value) ==
  IF obj.t # "obj" THEN obj
  ELSE IF Len(keys) = 1 THEN Put(obj, keys[1], value)
  ELSE LET child == IF Truthy(Prop(obj, keys[1])) THEN obj.kids[keys[1]]
                    ELSE Obj("fresh", NoKids)
       IN Put(obj, keys[1], ConfigSetAt(child, Tail(keys), value))

\* parseFloat of what the user typed into prompt()
ParseFloat(str) ==
  CASE str = "10" -> "10"
    [] str = "abc" -> "NaN"

\* min ? parseFloat(min) : null        (prompt returns null on Cancel)
RangeValue(str) == IF str \in {"", "null"} THEN Leaf("null") ELSE Leaf(ParseFloat(str))

\* Config.save(), lines 532-541
SaveOf(tree) == JsonStringify(tree)

\* ContextMenu.updateConfig(path, value): Config.set alone
UpdateConfig(path, value) ==
  /\ nSets < MaxSets
  /\ nSets' = nSets + 1
  /\ cfgTree' = ConfigSetAt(cfgTree, path, value)
  /\ UNCHANGED <<cfgDefaults, settings, savedFrom, merged, outsideConfig, dialogVars>>

\* ContextMenu.promptAxisRange(axisKey), lines 440-448: two prompts, two
\* Config.set calls, then applyAndRefresh saves the configuration
PromptAxisRange(min, max) ==
  /\ nSets < MaxSets
  /\ nSets' = nSets + 1
  /\ cfgTree' = ConfigSetAt(ConfigSetAt(cfgTree, <<"yAxisLeft", "min">>, RangeValue(min)),
                            <<"yAxisLeft", "max">>, RangeValue(max))
  /\ settings' = Some(SaveOf(cfgTree'))
  /\ savedFrom' = Some(cfgTree')
  /\ UNCHANGED <<cfgDefaults, merged, outsideConfig, dialogVars>>

\* ContextMenu.applyAndRefresh after an edit: Config.save()
ConfigSave ==
  /\ settings' = Some(SaveOf(cfgTree))
  /\ savedFrom' = Some(cfgTree)
  /\ UNCHANGED <<cfgTree, cfgDefaults, merged, nSets, outsideConfig, dialogVars>>

\* Config.load(), lines 470-486: an empty setting is no setting, a text
\* JSON.parse rejects ends in the catch block
ConfigLoad ==
  /\ IF settings # NULL /\ settings[1] # <<>> /\ SyntaxError(settings[1])
       THEN /\ merged' = NULL
            /\ cfgDefaults' = cfgDefaults
            /\ cfgTree' = DeepCopy(cfgDefaults)
       ELSE IF settings # NULL /\ settings[1] # <<>>
       THEN LET saved == JsonParse(settings[1])
                result == Merge(cfgDefaults, saved)
            IN /\ merged' = Some([c |-> savedFrom[1], result |-> result])
               /\ cfgDefaults' = DefaultsAfterMerge(cfgDefaults, result)
               /\ cfgTree' = EnsureFontObjects(result)
       ELSE /\ merged' = NULL
            /\ cfgDefaults' = cfgDefaults
            /\ cfgTree' = EnsureFontObjects(DeepCopy(cfgDefaults))
  /\ UNCHANGED <<settings, savedFrom, nSets, outsideConfig, dialogVars>>

\* what the context menu's items write: 'Show Labels' of the bars and
\* 'Number Format' of the y axis
MenuEdits ==
  { <<<<"barLabels", "show">>, Leaf("true")>>,
    <<<<"barLabels", "show">>, Leaf("false")>>,
    <<<<"yAxisLeft", "format">>, Leaf("'number'")>> }

PromptInputs == {"", "10", "abc"}

\* Config.init(): this.current = JSON.parse(JSON.stringify(this.defaults))
InitConfig ==
  /\ cfgDefaults = DefaultsTree
  /\ cfgTree = DeepCopy(DefaultsTree)
  /\ settings = NULL
  /\ savedFrom = NULL
  /\ merged = NULL
  /\ nSets = 0

NextConfig ==
  \/ \E ed \in MenuEdits : UpdateConfig(ed[1], ed[2])
  \/ \E min, max \in PromptInputs : PromptAxisRange(min, max)
  \/ ConfigSave
  \/ ConfigLoad

-----------------------------------------------------------------------------
(* main.js: the data listener, its debounce and loadAndRenderChart.  Time   *)
(* passes in ticks of 100 ms; a timeout runs when its ticks are used up.    *)

\* the four panels of the page, main.js lines 21-24
Panels == {"loading", "config", "chart", "error"}

\* a show function that takes 'hidden' off its own panel and leaves the
\* other three as they are
Show_removeOnly(classes, el) == classes \ {el}

\* showLoading, showConfigRequired, showChart, showError, lines 201-239 and
\* 290-296: classList.remove('hidden') on one panel, classList.add('hidden')
\* on the other three
Show(classes, el) == (classes \ {el}) \cup (Panels \ {el})

\* debounce(..., 300) of registerDataListener, line 138, in ticks
DebounceTicks == 3

\* every live timeout is set again on top of the ones pending
Rearm_noClear(timers) == timers \cup {DebounceTicks}

\* executedFunction, lines 336-342: clearTimeout(timeout);
\* timeout = setTimeout(later, wait)
Rearm(timers) == {DebounceTicks}

\* init() registers the listeners once its own load has settled, lines 76-78
ListenerRegistered == \A i \in DOMAIN loads : loads[i].by # "init"

\* the two events registerDataChangeListener subscribes the one callback to
EventTypes == {"FilterChanged", "SummaryDataChanged"}

\* the worksheets of the page: a filter may leave no row at all
MainArrays ==
  LET jan == CHOOSE r \in RowPool : r.dimension = "Jan 2024"
      feb == CHOOSE r \in RowPool : r.dimension = "Feb 2024"
  IN { <<>>, <<jan>>, <<jan, feb>> }

\* the worksheet raises an event of either type; the debounced callback
\* (re)starts its timeout.  A timeout that is due runs before the event.
DataEvent(type, rows) ==
  /\ ListenerRegistered
  /\ dataVersion < MaxEvents
  /\ 0 \notin dataTimers
  /\ worksheet' = rows
  /\ dataVersion' = dataVersion + 1
  /\ dataTimers' = Rearm(dataTimers)
  /\ burst' = IF sinceEvent >= DebounceTicks THEN <<type>> ELSE Append(burst, type)
  /\ reloads' = IF sinceEvent >= DebounceTicks THEN 0 ELSE reloads
  /\ sinceEvent' = 0
  /\ UNCHANGED <<loads, panel, hidden, settled, outsideMain>>
  /\ UNCHANGED <<Config_current, rect, resizeTimeout, data, originalData, config,
                 isFirstRender, height, xScale, yScaleLeft, yScaleRight, barsGroup, labelsGroup,
                 lineGroup, yAxisLeftGroup, yAxisRightGroup, lastArgs, lastOp, lastLegendPosition,
                           legendTimers, aliased>>

\* 100 ms pass
Tick ==
  /\ 0 \notin dataTimers
  /\ dataTimers' = { t - 1 : t \in dataTimers }
  /\ sinceEvent' = Min2(sinceEvent + 1, DebounceTicks + 1)
  /\ UNCHANGED <<loads, panel, hidden, dataVersion, burst, reloads, settled, outsideMain, renderVars>>

\* the timeout's callback, lines 133-136 and 97-102: loadAndRenderChart
\* shows the loading panel and asks for the data
Reload ==
  /\ 0 \in dataTimers
  /\ Len(loads) < MaxLoads
  /\ dataTimers' = dataTimers \ {0}
  /\ loads' = Append(loads, [rows |-> worksheet, ver |-> dataVersion, by |-> "data"])
  /\ panel' = "loading"
  /\ hidden' = Show(hidden, "loading")
  /\ reloads' = reloads + 1
  /\ UNCHANGED <<dataVersion, sinceEvent, burst, settled, outsideMain, renderVars>>

\* the ways the body of loadAndRenderChart's try block ends once the request
\* for data is answered: getData resolves and the rest runs through, getData
\* rejects (dataHandler.js lines 137-140 rethrow the worksheet's error), or
\* ComboChart.render throws
Outcomes == {"resolved", "rejected", "threw"}

\* error.message of what the catch block receives
ErrorMessage(outcome) ==
  IF outcome = "rejected" THEN "getSummaryDataAsync failed" ELSE "render failed"

\* showError, lines 290-296: errorTextEl.textContent =
\* message || 'An unknown error occurred'
ShowError(message) == IF message = "" THEN "An unknown error occurred" ELSE message

\* loadAndRenderChart without its catch block: the panel on show stays the
\* one showLoading put up and the error reaches the caller
Finish_uncaught(outcome, rows) ==
  IF outcome # "resolved" /\ (outcome = "rejected" \/ rows # <<>>)
    THEN [shown |-> "loading", errorText |-> NULL, propagated |-> TRUE]
  ELSE IF rows = <<>> THEN [shown |-> "config", errorText |-> NULL, propagated |-> FALSE]
  ELSE [shown |-> "chart", errorText |-> NULL, propagated |-> FALSE]

\* loadAndRenderChart, lines 101-122, from the answer to its end: what is
\* on show, the text showError wrote and whether an error leaves the call
Finish(outcome, rows) ==
  IF outcome = "rejected" \/ (outcome = "threw" /\ rows # <<>>)
    THEN [shown |-> "error",
          errorText |-> Some(ShowError("Failed to load data: " \o ErrorMessage(outcome))),
          propagated |-> FALSE]
  ELSE IF rows = <<>> THEN [shown |-> "config", errorText |-> NULL, propagated |-> FALSE]
  ELSE [shown |-> "chart", errorText |-> NULL, propagated |-> FALSE]

\* ComboChart.render throws after it has stored its arguments,
\* comboChart.js lines 196-208: nothing is drawn
RenderThrows(arr, cfg) ==
  /\ originalData' = IF SameRef(arr, data) THEN originalData ELSE Some(arr)
  /\ data' = Some(arr)
  /\ config' = Some(cfg)
  /\ isFirstRender' = (isFirstRender \/ cfg.forceAnimationPreview)
  /\ UNCHANGED <<height, xScale, yScaleLeft, yScaleRight, barsGroup, labelsGroup, lineGroup,
                 yAxisLeftGroup, yAxisRightGroup, lastArgs, lastLegendPosition,
                 legendTimers>>

\* DataHandler.getData() of a waiting load settles, lines 102-122: no rows
\* - the fields-required panel; rows - ComboChart.render and the chart; a
\* rejection or a throwing render - the catch block and the error panel
LoadSettled(i, outcome) ==
  LET load == loads[i]
      end == Finish(outcome, load.rows)
  IN /\ outcome = "threw" => load.rows # <<>>
     /\ loads' = Drop(loads, i)
     /\ panel' = end.shown
     /\ hidden' = Show(hidden, end.shown)
     /\ settled' = Some([rows |-> load.rows, ver |-> load.ver, shown |-> end.shown,
                         outcome |-> outcome, errorText |-> end.errorText,
                         propagated |-> end.propagated])
     /\ IF outcome = "resolved" /\ load.rows # <<>>
          THEN /\ Render(InputArray(load.rows), Config_current)
               /\ lastOp' = "render"
               /\ aliased' = TRUE
          ELSE IF outcome = "threw"
          THEN /\ RenderThrows(InputArray(load.rows), Config_current)
               /\ lastOp' = "render"
               /\ aliased' = TRUE
          ELSE UNCHANGED <<data, originalData, config, isFirstRender, height, xScale,
                           yScaleLeft, yScaleRight, barsGroup, labelsGroup, lineGroup, yAxisLeftGroup,
                           yAxisRightGroup, lastArgs, lastOp, lastLegendPosition,
                           legendTimers, aliased>>
     /\ UNCHANGED <<Config_current, rect, resizeTimeout, worksheet, dataTimers,
                    dataVersion, sinceEvent, burst, reloads, outsideMain>>

\* the page at rest: no timeout, no load, no event so far
InitIdle ==
  /\ dataTimers = {}
  /\ loads = <<>>
  /\ panel = "loading"
  /\ hidden = Show({}, "loading")
  /\ dataVersion = 0
  /\ sinceEvent = DebounceTicks + 1
  /\ burst = <<>>
  /\ reloads = 0
  /\ settled = NULL

\* the request of some waiting load is answered, in one of the three ways
SettleAny ==
  \E i \in DOMAIN loads :
    \/ LoadSettled(i, "rejected")
    \/ LoadSettled(i, "threw")
    \/ LoadSettled(i, "resolved")

NextMain ==
  \/ \E type \in EventTypes : \E rows \in MainArrays \ {worksheet} : DataEvent(type, rows)
  \/ Tick
  \/ Reload
  \/ SettleAny

-----------------------------------------------------------------------------
(* DataHandler.getData, dataHandler.js lines 33-141.  Field names and       *)
(* formatted values are strings of characters; column indices count from 0  *)
(* and -1 is "none", as in the code.                                        *)

Month == [fieldName |-> <<"M", "o", "n", "t", "h">>, dataType |-> "string"]
Sales == [fieldName |-> <<"S", "a", "l", "e", "s">>, dataType |-> "int"]
Profit == [fieldName |-> <<"P", "r", "o", "f", "i", "t">>, dataType |-> "int"]
Margin == [fieldName |-> <<"M", "a", "r", "g", "i", "n">>, dataType |-> "float"]
Rate == [fieldName |-> <<"R", "a", "t", "e">>, dataType |-> "float"]

ColumnPool == {Month, Sales, Profit, Margin}

\* the pool with a second measure named like a line
WidePool == ColumnPool \cup {Rate}

\* the column lists of the worksheet: distinct fields, MaxCols at most
ColumnListsOf(pool) ==
  { c \in UNION { [1..n -> pool] : n \in 0..Min2(MaxCols, Cardinality(pool)) } :
      \A i, j \in DOMAIN c : i # j => c[i] # c[j] }

ColumnLists == ColumnListsOf(ColumnPool)

\* a DataValue of the table
Cell(value, formattedValue) == [value |-> value, formattedValue |-> formattedValue]

\* the two rows of the table, column by column; two cells carry no native
\* value, only a formatted one
CellOf(col, r) ==
  CASE col = Month -> IF r = 1 THEN Cell(Some(<<"J", "a", "n">>), <<"J", "a", "n">>)
                               ELSE Cell(Some(<<"F", "e", "b">>), <<"F", "e", "b">>)
    [] col = Sales -> IF r = 1 THEN Cell(Some(100), <<"1", "0", "0">>)
                               ELSE Cell(Some(30), <<"3", "0">>)
    [] col = Profit -> IF r = 1 THEN Cell(Some(10), <<"1", "0">>)
                                ELSE Cell(NULL, <<"$", "5">>)
    [] col = Margin -> IF r = 1 THEN Cell(Some(15), <<"1", "5", "%">>)
                                ELSE Cell(NULL, <<"N", "/", "A">>)
    [] col = Rate -> IF r = 1 THEN Cell(Some(5), <<"5", "%">>)
                              ELSE Cell(Some(7), <<"7", "%">>)

\* dataTable.data: no row without a column
TableData(cols) ==
  [r \in 1..(IF cols = <<>> THEN 0 ELSE 2) |-> [i \in 1..Len(cols) |-> CellOf(cols[i], r)]]

\* String.prototype.toLowerCase, for the letters of the pool's names
LowerChar(c) ==
  CASE c = "M" -> "m" [] c = "S" -> "s" [] c = "P" -> "p" [] c = "R" -> "r" [] OTHER -> c

ToLowerCase(str) == [i \in 1..Len(str) |-> LowerChar(str[i])]

\* String.prototype.includes
Includes(str, sub) ==
  \E i \in 1..(Len(str) - Len(sub) + 1) : SubSeq(str, i, i + Len(sub) - 1) = sub

Digits == <<"0", "1", "2", "3", "4", "5", "6", "7", "8", "9">>
IsDigit(c) == \E d \in DOMAIN Digits : Digits[d] = c
DigitValue(c) == (CHOOSE d \in DOMAIN Digits : Digits[d] = c) - 1

\* the leading digits of a string, as a number
RECURSIVE LeadingDigits(_, _)
LeadingDigits(str, acc) ==
  IF str = <<>> \/ ~IsDigit(Head(str)) THEN acc
  ELSE LeadingDigits(Tail(str), 10 * acc + DigitValue(Head(str)))

\* parseFloat of a string of characters: NULL for NaN.  The table holds no
\* fractions, so digits behind a point are not read.
ParseFloatOf(str) ==
  LET neg == str # <<>> /\ Head(str) = "-"
      rest == IF neg THEN Tail(str) ELSE str
  IN IF rest = <<>> \/ ~IsDigit(Head(rest)) THEN NULL
     ELSE Some(IF neg THEN 0 - LeadingDigits(rest, 0) ELSE LeadingDigits(rest, 0))

\* parseNumber(dataValue), lines 185-192
ParseNumber(dataValue) ==
  IF dataValue.value # NULL THEN dataValue.value[1]
  ELSE LET kept == SelectSeq(dataValue.formattedValue,
                             LAMBDA c : IsDigit(c) \/ c = "." \/ c = "-")
           num == ParseFloatOf(kept)
       IN IF num = NULL THEN 0 ELSE num[1]

IsDateOrString(col) == col.dataType \in {"string", "date", "date-time"}
IsNumeric(col) == col.dataType \in {"int", "float"}

\* name.includes('%') || name.includes('margin') || name.includes('ratio')
\* || name.includes('rate')
LooksLikeLine(col) ==
  LET name == ToLowerCase(col.fieldName)
  IN \/ Includes(name, <<"%">>)
     \/ Includes(name, <<"m", "a", "r", "g", "i", "n">>)
     \/ Includes(name, <<"r", "a", "t", "i", "o">>)
     \/ Includes(name, <<"r", "a", "t", "e">>)

\* the first index of a set, -1 if there is none
FirstIndex(S) == IF S = {} THEN 0 - 1 ELSE CHOOSE i \in S : \A j \in S : i <= j

Indices(cols) == [i \in 1..Len(cols) |-> i - 1]

\* the field detection of getData, lines 56-104
FieldMapping(cols) ==
  LET col(idx) == cols[idx + 1]
      all == { idx \in 0..(Len(cols) - 1) : TRUE }
      dimByType == FirstIndex({ idx \in all : IsDateOrString(col(idx)) })
      lineByName == FirstIndex({ idx \in all : IsNumeric(col(idx)) /\ LooksLikeLine(col(idx)) })
      measureIndices == SelectSeq(Indices(cols),
                                  LAMBDA idx : IsNumeric(col(idx)) /\ ~LooksLikeLine(col(idx)))
      n == Len(measureIndices)
      bar1 == IF n >= 1 THEN measureIndices[1] ELSE 0 - 1
      bar2 == IF n >= 2 THEN measureIndices[2] ELSE 0 - 1
      line == IF lineByName = 0 - 1 /\ n >= 3 THEN measureIndices[3] ELSE lineByName
      barAsLine == line = 0 - 1 /\ bar2 >= 0
  IN [dimIndex |-> IF dimByType = 0 - 1 /\ Len(cols) > 0 THEN 0 ELSE dimByType,
      bar1Index |-> bar1,
      bar2Index |-> IF barAsLine THEN (IF n >= 3 THEN measureIndices[3] ELSE 0 - 1) ELSE bar2,
      lineIndex |-> IF barAsLine THEN bar2 ELSE line]

Chars(word) ==
  CASE word = "N/A" -> <<"N", "/", "A">>
    [] word = "0" -> <<"0">>
    [] word = "Category" -> <<"C", "a", "t", "e", "g", "o", "r", "y">>
    [] word = "Bar 1" -> <<"B", "a", "r", " ", "1">>
    [] word = "Bar 2" -> <<"B", "a", "r", " ", "2">>
    [] word = "Line" -> <<"L", "i", "n", "e">>

\* getData's return value for a table, lines 52-136
GetData(cols, rows) ==
  IF Len(rows) = 0 THEN [data |-> <<>>, fieldNames |-> [k \in {} |-> <<>>]]
  ELSE
    LET m == FieldMapping(cols)
        value(row, idx) == IF idx >= 0 THEN ParseNumber(row[idx + 1]) ELSE 0
        formatted(row, idx) == IF idx >= 0 THEN row[idx + 1].formattedValue ELSE Chars("0")
        name(idx, default) == IF idx >= 0 THEN cols[idx + 1].fieldName ELSE Chars(default)
    IN [data |-> [r \in 1..Len(rows) |->
                    [dimension |-> IF m.dimIndex >= 0
                                     THEN rows[r][m.dimIndex + 1].formattedValue
                                     ELSE Chars("N/A"),
                     bar1Value |-> value(rows[r], m.bar1Index),
                     bar2Value |-> value(rows[r], m.bar2Index),
                     lineValue |-> value(rows[r], m.lineIndex),
                     bar1Formatted |-> formatted(rows[r], m.bar1Index),
                     bar2Formatted |-> formatted(rows[r], m.bar2Index),
                     lineFormatted |-> formatted(rows[r], m.lineIndex)]],
        fieldNames |-> [dimension |-> name(m.dimIndex, "Category"),
                        bar1 |-> name(m.bar1Index, "Bar 1"),
                        bar2 |-> name(m.bar2Index, "Bar 2"),
                        line |-> name(m.lineIndex, "Line")],
        hasAllFields |-> m.dimIndex >= 0 /\ m.bar1Index >= 0
                         /\ m.bar2Index >= 0 /\ m.lineIndex >= 0]

\* loadAndRenderChart, main.js lines 97-123, with the worksheet answering
\* at once
LoadAndRenderChart(cols) ==
  LET res == GetData(cols, TableData(cols))
  IN /\ fetched' = Some(res)
     /\ worksheet' = res.data
     /\ IF Len(res.data) = 0
          THEN /\ panel' = "config"
               /\ hidden' = Show(hidden, "config")
               /\ UNCHANGED <<data, originalData, config, isFirstRender, height, xScale,
                              yScaleLeft, yScaleRight, barsGroup, labelsGroup, lineGroup,
                              yAxisLeftGroup, yAxisRightGroup, lastArgs, lastOp, lastLegendPosition,
                           legendTimers, aliased>>
          ELSE /\ Render(InputArray(res.data), Config_current)
               /\ lastOp' = "render"
               /\ aliased' = TRUE
               /\ panel' = "chart"
               /\ hidden' = Show(hidden, "chart")
     /\ UNCHANGED <<Config_current, rect, resizeTimeout, outsideFields>>

\* init()'s first load, main.js line 76
FirstLoad ==
  /\ fetched = NULL
  /\ LoadAndRenderChart(columns)
  /\ UNCHANGED <<columns, fieldConfig>>

\* a field is put on, taken off or moved on the Marks card: the worksheet
\* raises SummaryDataChanged and the data listener reloads the chart
ColumnsChanged(cols) ==
  /\ fetched # NULL
  /\ columns' = cols
  /\ LoadAndRenderChart(cols)
  /\ UNCHANGED fieldConfig

\* what the dialog's dropdowns offer, getColumns lines 146-180 and
\* updateMeasureDropdowns: a dimension and three different measures
FieldChoices(cols) ==
  LET dimensions == { cols[i].fieldName : i \in { j \in DOMAIN cols : IsDateOrString(cols[j]) } }
      measures == { cols[i].fieldName : i \in { j \in DOMAIN cols : ~IsDateOrString(cols[j]) } }
  IN { c \in [dimension : dimensions, bar1Measure : measures,
               bar2Measure : measures, lineMeasure : measures] :
         Cardinality({c.bar1Measure, c.bar2Measure, c.lineMeasure}) = 3 }

\* the dialog's saveAndClose, dataHandler.js lines 2583-2609, with the
\* fields chosen in the Data tab; the settings listener (main.js lines
\* 144-153) loads the saved configuration and reloads the chart
SaveAndClose(choice) ==
  /\ fetched # NULL
  /\ fieldConfig' = choice
  /\ LoadAndRenderChart(columns)
  /\ UNCHANGED columns

\* Config.defaults: dimension, bar1Measure, bar2Measure, lineMeasure are ''
NoFields == [dimension |-> <<>>, bar1Measure |-> <<>>, bar2Measure |-> <<>>, lineMeasure |-> <<>>]

\* no table: the chart is fed from the worksheet variable alone
InitNoTable ==
  /\ columns = <<>>
  /\ fieldConfig = NoFields
  /\ fetched = NULL

\* one step on the Marks card: a field taken off, put on at the end, or two
\* neighbours exchanged
ColumnChangesIn(lists, cols) ==
  { c \in lists :
      \/ \E i \in DOMAIN cols : c = Drop(cols, i)
      \/ \E i \in DOMAIN c : i = Len(c) /\ cols = Drop(c, i)
      \/ \E i \in 1..(Len(cols) - 1) : c = Swap(cols, i) }

ColumnChanges(cols) == ColumnChangesIn(ColumnLists, cols)

NextFields ==
  \/ FirstLoad
  \/ \E cols \in ColumnChanges(columns) : ColumnsChanged(cols)
  \/ \E choice \in FieldChoices(columns) : SaveAndClose(choice)

-----------------------------------------------------------------------------
(* The configuration dialog (src/js/dataHandler.js, DialogConfig).  Its     *)
(* config is a JSON tree over the same keys as Config; the cut keeps the    *)
(* four field selections and the flag of the animation preview.  A field    *)
(* name and the value of a select are written as JavaScript literals.       *)

\* columns.dimensions and columns.measures after loadColumns(), lines 1180-1205
DialogDimensions == <<"'Month'">>
DialogMeasures == <<"'Sales'", "'Profit'", "'Margin'">>

MeasureRoles == {"bar1Measure", "bar2Measure", "lineMeasure"}

\* getDefaultConfig(), lines 492-533
GetDefaultConfig ==
  Obj("fresh", [k \in {"dimension"} \cup MeasureRoles |-> Leaf("''")])

\* deepMerge(defaults, overrides), lines 472-487
RECURSIVE DeepMerge(_, _)
RECURSIVE DeepMergeKeys(_, _, _)

DeepMergeKeys(result, overrides, keys) ==
  IF keys = <<>> THEN result
  ELSE LET k == Head(keys)
           ov == overrides.kids[k]
           base == IF Truthy(Prop(result, k)) THEN result.kids[k] ELSE Obj("fresh", NoKids)
       IN DeepMergeKeys(Put(result, k, IF ov.t = "obj" THEN DeepMerge(base, ov) ELSE ov),
                        overrides, Tail(keys))

DeepMerge(defaults, overrides) ==
  DeepMergeKeys(DeepCopy(defaults), overrides, OwnKeys(overrides))

\* loadConfig(), lines 441-451
LoadConfig(stored) ==
  IF stored # NULL THEN DeepMerge(GetDefaultConfig, JsonParse(stored[1]))
  ELSE GetDefaultConfig

\* a select element before it is populated
EmptySelect == [options |-> <<>>, value |-> "''"]

\* populateMeasureSelect of updateMeasureDropdowns, lines 1242-1256: the
\* options are rebuilt, then selectEl.value = currentValue || previousValue
\* || ''; a value that no option carries leaves the placeholder selected
PopulateMeasureSelect(selectEl, currentValue, excludeValues) ==
  LET options == SelectSeq(DialogMeasures,
                           LAMBDA m : m = currentValue \/ m \notin excludeValues)
      wanted == IF currentValue # "''" THEN currentValue ELSE selectEl.value
  IN [options |-> options,
      value |-> IF \E i \in DOMAIN options : options[i] = wanted THEN wanted ELSE "''"]

\* updateMeasureDropdowns(), lines 1233-1277
UpdateMeasureDropdowns(cfg, sels) ==
  [r \in MeasureRoles |->
     PopulateMeasureSelect(sels[r], cfg.kids[r].v,
                           { cfg.kids[o].v : o \in MeasureRoles \ {r} } \ {"''"})]

\* validate(), lines 2569-2578
Validate(cfg) ==
  \A k \in {"dimension"} \cup MeasureRoles : Truthy(cfg.kids[k])

\* Config.load() of the page, lines 470-486, over the stored text
LoadFromSettings(stored, from) ==
  IF stored # NULL
    THEN LET saved == JsonParse(stored[1])
             result == Merge(cfgDefaults, saved)
         IN /\ merged' = Some([c |-> from[1], result |-> result])
            /\ cfgDefaults' = DefaultsAfterMerge(cfgDefaults, result)
            /\ cfgTree' = EnsureFontObjects(result)
    ELSE /\ merged' = NULL
         /\ cfgDefaults' = cfgDefaults
         /\ cfgTree' = EnsureFontObjects(DeepCopy(cfgDefaults))

WriteSettings_withRows(cfg) ==
  LET seen == IF worksheet = <<>> THEN cfg
              ELSE Put(cfg, "dimension", Leaf("'" \o worksheet[1].dimension \o "'"))
  IN /\ settings' = Some(JsonStringify(seen))
     /\ savedFrom' = Some(seen)

\* settings.set('comboChartConfig', JSON.stringify(config)) and saveAsync():
\* the host raises SettingsChanged, which arms the page's debounced listener
WriteSettings(cfg) ==
  /\ settings' = Some(JsonStringify(cfg))
  /\ savedFrom' = Some(cfg)

\* openConfigDialog(), main.js lines 160-192, and the dialog's init():
\* loadConfig(), loadColumns(), populateFieldSelects()
OpenDialog ==
  /\ dialog # "open"
  /\ session.clicks < MaxClicks
  /\ dialog' = "open"
  /\ dlgConfig' = LoadConfig(settings)
  /\ selects' = UpdateMeasureDropdowns(dlgConfig', [r \in MeasureRoles |-> EmptySelect])
  /\ session' = [atOpen |-> settings, committed |-> FALSE, reloaded |-> FALSE,
                 clicks |-> session.clicks + 1]
  /\ UNCHANGED <<dlgTimers, outsideDialog>>

\* the change listener of the dimension select, lines 1632-1635
DimensionChange(value) ==
  /\ dialog = "open"
  /\ session.clicks < MaxClicks
  /\ value # dlgConfig.kids["dimension"].v
  /\ dlgConfig' = Put(dlgConfig, "dimension", Leaf(value))
  /\ session' = [session EXCEPT !.clicks = @ + 1]
  /\ UNCHANGED <<selects, dialog, dlgTimers, outsideDialog>>

\* the change listeners of the three measure selects, lines 1636-1650: the
\* user picks an option other than the one shown
MeasureChange(role, value) ==
  /\ dialog = "open"
  /\ session.clicks < MaxClicks
  /\ value # selects[role].value
  /\ value = "''" \/ \E i \in DOMAIN selects[role].options : selects[role].options[i] = value
  /\ dlgConfig' = Put(dlgConfig, role, Leaf(value))
  /\ selects' = UpdateMeasureDropdowns(dlgConfig', [selects EXCEPT ![role].value = value])
  /\ session' = [session EXCEPT !.clicks = @ + 1]
  /\ UNCHANGED <<dialog, dlgTimers, outsideDialog>>

\* swapBars(), lines 2442-2472: populateForm() and updateFieldLabels() leave
\* the measure selects as they are
SwapBars ==
  /\ dialog = "open"
  /\ session.clicks < MaxClicks
  /\ dlgConfig' = Put(Put(dlgConfig, "bar1Measure", dlgConfig.kids["bar2Measure"]),
                      "bar2Measure", dlgConfig.kids["bar1Measure"])
  /\ dlgConfig' # dlgConfig
  /\ session' = [session EXCEPT !.clicks = @ + 1]
  /\ UNCHANGED <<selects, dialog, dlgTimers, outsideDialog>>

\* resetToDefaults(), lines 2271-2309, the confirm() accepted
ResetToDefaults ==
  /\ dialog = "open"
  /\ session.clicks < MaxClicks
  /\ dlgConfig' = Obj("fresh", [k \in DOMAIN GetDefaultConfig.kids |-> dlgConfig.kids[k]])
  /\ dlgConfig' # dlgConfig
  /\ session' = [session EXCEPT !.clicks = @ + 1]
  /\ UNCHANGED <<selects, dialog, dlgTimers, outsideDialog>>

\* applyChanges(), lines 2314-2357
ApplyChanges ==
  /\ dialog = "open"
  /\ session.clicks < MaxClicks
  /\ Validate(dlgConfig)
  /\ WriteSettings(dlgConfig)
  /\ dlgTimers' = dlgTimers \cup {"settings"}
  /\ session' = [session EXCEPT !.committed = TRUE, !.clicks = @ + 1]
  /\ UNCHANGED <<dlgConfig, selects, dialog, cfgTree, cfgDefaults, merged, nSets,
                 outsideConfig>>

\* saveAndClose(), lines 2583-2609, and the page's then-callback of
\* displayDialogAsync, main.js lines 179-185: Config.load() on 'saved'
DialogSaveAndClose ==
  /\ dialog = "open"
  /\ session.clicks < MaxClicks
  /\ Validate(dlgConfig)
  /\ WriteSettings(dlgConfig)
  /\ dialog' = "saved"
  /\ dlgTimers' = (dlgTimers \ {"preview"}) \cup {"settings"}
  /\ session' = [session EXCEPT !.committed = TRUE, !.clicks = @ + 1, !.reloaded = TRUE]
  /\ LoadFromSettings(Some(JsonStringify(dlgConfig)), Some(dlgConfig))
  /\ UNCHANGED <<dlgConfig, selects, nSets, outsideConfig>>

\* previewAnimation(), lines 2512-2548, up to its setTimeout(duration + 100)
PreviewAnimation ==
  /\ dialog = "open"
  /\ session.clicks < MaxClicks
  /\ dlgConfig' = Put(dlgConfig, "forceAnimationPreview", Leaf("true"))
  /\ WriteSettings(dlgConfig')
  /\ dlgTimers' = dlgTimers \cup {"preview", "settings"}
  /\ session' = [session EXCEPT !.clicks = @ + 1]
  /\ UNCHANGED <<selects, dialog, cfgTree, cfgDefaults, merged, nSets,
                 outsideConfig>>

\* the timeout of previewAnimation, lines 2530-2534; it runs in the dialog's
\* window and is gone when the dialog is closed
PreviewTimeout ==
  /\ "preview" \in dlgTimers
  /\ dlgConfig' = Put(dlgConfig, "forceAnimationPreview", Leaf("false"))
  /\ WriteSettings(dlgConfig')
  /\ dlgTimers' = (dlgTimers \ {"preview"}) \cup {"settings"}
  /\ UNCHANGED <<selects, dialog, session, cfgTree, cfgDefaults, merged, nSets,
                 outsideConfig>>

\* closeDialog(), lines 2614-2623: the Cancel button
CloseDialog ==
  /\ dialog = "open"
  /\ session.clicks < MaxClicks
  /\ dialog' = "cancelled"
  /\ dlgTimers' = dlgTimers \ {"preview"}
  /\ session' = [session EXCEPT !.clicks = @ + 1]
  /\ UNCHANGED <<dlgConfig, selects, outsideDialog>>

\* the page's debounced SettingsChanged listener, main.js lines 144-153:
\* Config.load() and loadAndRenderChart()
SettingsListener ==
  /\ "settings" \in dlgTimers
  /\ dlgTimers' = dlgTimers \ {"settings"}
  /\ LoadFromSettings(settings, savedFrom)
  /\ session' = [session EXCEPT !.reloaded = TRUE]
  /\ UNCHANGED <<dlgConfig, selects, dialog, settings, savedFrom, nSets, outsideConfig>>

\* the settings a workbook holds when the page starts: none, or what an
\* earlier Save & Close wrote
StoredSettings ==
  { NULL,
    Some(JsonStringify(Obj("fresh",
           [k \in {"dimension"} \cup MeasureRoles |->
              CASE k = "dimension" -> Leaf("'Month'")
                [] k = "bar1Measure" -> Leaf("'Sales'")
                [] k = "bar2Measure" -> Leaf("'Profit'")
                [] k = "lineMeasure" -> Leaf("'Margin'")]))) }

\* the page before the dialog was ever opened
InitNoDialog ==
  /\ dialog = "closed"
  /\ dlgConfig = GetDefaultConfig
  /\ selects = [r \in MeasureRoles |-> EmptySelect]
  /\ dlgTimers = {}
  /\ session = [atOpen |-> NULL, committed |-> FALSE, reloaded |-> FALSE, clicks |-> 0]

NextDialog ==
  \/ OpenDialog
  \/ \E v \in {"''"} \cup { DialogDimensions[i] : i \in DOMAIN DialogDimensions } :
       DimensionChange(v)
  \/ \E r \in MeasureRoles :
       \E v \in {"''"} \cup { DialogMeasures[i] : i \in DOMAIN DialogMeasures } :
         MeasureChange(r, v)
  \/ SwapBars
  \/ ResetToDefaults
  \/ ApplyChanges
  \/ DialogSaveAndClose
  \/ PreviewAnimation
  \/ PreviewTimeout
  \/ CloseDialog
  \/ SettingsListener
  \/ ConfigSave

-----------------------------------------------------------------------------
(* Specifications *)

vars == <<renderVars, configVars, mainVars, fieldVars, dialogVars>>

InitRenderAt(arrays, rects, time) ==
  /\ clock = time
  /\ resizeDone = NULL
  /\ Config_current = Defaults
  /\ rect \in rects
  /\ resizeTimeout = FALSE
  /\ worksheet \in arrays
  /\ data = NULL
  /\ originalData = NULL
  /\ config = NULL
  /\ isFirstRender = TRUE
  /\ height = 0
  /\ xScale = <<>>
  /\ yScaleLeft = NULL
  /\ yScaleRight = NULL
  /\ barsGroup = NULL
  /\ labelsGroup = NULL
  /\ lineGroup = NULL
  /\ yAxisLeftGroup = <<>>
  /\ yAxisRightGroup = <<>>
  /\ lastArgs = NULL
  /\ lastOp = "none"
  /\ lastLegendPosition = NULL
  /\ legendTimers = {}
  /\ aliased = FALSE

\* the chart where the time is not followed
InitRender(arrays, rects) == InitRenderAt(arrays, rects, NULL)

NextRender(arrays, edits, rects) ==
  \/ LoadAndRender
  \/ \E rows \in DataChanges(worksheet, arrays) : SummaryDataChanged(rows)
  \/ \E e \in edits : SettingsChanged(e[1], e[2])
  \/ \E r \in rects : ResizeNotify(r)
  \/ ResizeRender

\* one worksheet, for the specifications that draw nothing
OneArray == { <<CHOOSE r \in RowPool : r.dimension = "Jan 2024">> }

\* the chart under changes of the sort order, rows in every order
InitSort == InitRender(RowArrays, OneRect) /\ InitConfig /\ InitIdle /\ InitNoTable /\ InitNoDialog
NextSort == NextRender(RowArrays, SortEdits, OneRect)
SpecSort == InitSort /\ [][NextSort]_vars

\* the chart under changes of the y axes' label settings
InitAxes == InitRender(OrderedRowArrays, OneRect) /\ InitConfig /\ InitIdle /\ InitNoTable /\ InitNoDialog
NextAxes == NextRender(OrderedRowArrays, AxisEdits, OneRect)
SpecAxes == InitAxes /\ [][NextAxes]_vars

\* the chart under changes of the axis mode and the right axis
InitShared == InitRender(OrderedRowArrays, TwoRects) /\ InitConfig /\ InitIdle /\ InitNoTable /\ InitNoDialog
NextShared == NextRender(OrderedRowArrays, SharedEdits, TwoRects)
SpecShared == InitShared /\ [][NextShared]_vars

\* the dual-axis chart under changes of bar style, sync and axis bounds
InitDual == InitRender(OrderedRowArrays, OneRect) /\ InitConfig /\ InitIdle /\ InitNoTable /\ InitNoDialog
NextDual == NextRender(OrderedRowArrays, DualEdits, OneRect)
SpecDual == InitDual /\ [][NextDual]_vars

\* the configuration under context-menu edits, save and load
InitConfigOnly == InitRender(OneArray, OneRect) /\ InitConfig /\ InitIdle /\ InitNoTable /\ InitNoDialog
SpecConfig == InitConfigOnly /\ [][NextConfig]_vars

\* init(), lines 39-91, at its await of the first loadAndRenderChart()
InitMain ==
  /\ InitRender(MainArrays, OneRect)
  /\ InitConfig
  /\ dataTimers = {}
  /\ loads = <<[rows |-> worksheet, ver |-> 0, by |-> "init"]>>
  /\ panel = "loading"
  /\ hidden = Show({}, "loading")
  /\ dataVersion = 0
  /\ sinceEvent = DebounceTicks + 1
  /\ burst = <<>>
  /\ reloads = 0
  /\ settled = NULL
  /\ InitNoTable
  /\ InitNoDialog

\* the page under worksheet events; time goes on, a due timeout runs and
\* every request for data is answered
SpecMain ==
  /\ InitMain
  /\ [][NextMain]_vars
  /\ WF_vars(Tick)
  /\ WF_vars(Reload)
  /\ WF_vars(SettleAny)

\* getData under changes of the worksheet's columns and of the saved fields
InitFields ==
  /\ InitRender({<<>>}, OneRect)
  /\ InitConfig
  /\ InitIdle
  /\ columns \in { c \in ColumnLists : Len(c) = Cardinality(ColumnPool) }
  /\ fieldConfig = NoFields
  /\ fetched = NULL
  /\ InitNoDialog
SpecFields == InitFields /\ [][NextFields]_vars

\* what the dialog saves in the legend and animation sections, and what the
\* context menu's Legend items set (contextMenu.js lines 231-237)
LegendPositions == {"bottom", "right"}

LegendEdits ==
  ({<<"legend", "position">>} \X LegendPositions)
  \cup ({<<"legend", "show">>} \X BOOLEAN)
  \cup ({<<"forceAnimationPreview">>} \X BOOLEAN)

MenuSets == {<<"legend", "position">>} \X LegendPositions

\* the chart under changes of the legend, with the context menu in reach
InitLegend ==
  InitRender(MainArrays \ {<<>>}, OneRect) /\ InitConfig /\ InitIdle /\ InitNoTable
  /\ InitNoDialog
NextLegend ==
  \/ NextRender(MainArrays \ {<<>>}, LegendEdits, OneRect)
  \/ \E position \in LegendPositions : LegendRerender(position)
  \/ \E e \in MenuSets : ConfigSet(e[1], e[2])
SpecLegend == InitLegend /\ [][NextLegend]_vars

\* the axis ranges the dialog's Axes tab saves, 0 among them
BoundEdits ==
  ({<<"axisMode">>} \X {"dual", "shared"})
  \cup ({<<"syncDualAxis">>} \X BOOLEAN)
  \cup ({<<"yAxisLeft", "min">>} \X {NULL, Some(10)})
  \cup ({<<"yAxisLeft", "max">>} \X {NULL, Some(0), Some(200)})
  \cup ({<<"yAxisRight", "max">>} \X {NULL, Some(40)})

\* the chart under changes of the axis mode and the configured ranges
InitBounds ==
  InitRender(MainArrays \ {<<>>}, OneRect) /\ InitConfig /\ InitIdle /\ InitNoTable
  /\ InitNoDialog
NextBounds == NextRender(MainArrays \ {<<>>}, BoundEdits, OneRect)
SpecBounds == InitBounds /\ [][NextBounds]_vars

\* the chart under resize notifications and legend changes, in time
InitResize ==
  InitRenderAt(MainArrays \ {<<>>}, OneRect, Some(ResizeTicks + 1))
  /\ InitConfig /\ InitIdle /\ InitNoTable /\ InitNoDialog
NextResize ==
  \/ NextRender(MainArrays \ {<<>>}, {<<"legend", "position">>} \X LegendPositions, OneRect)
  \/ \E position \in LegendPositions : LegendRerender(position)
  \/ ResizeTick
SpecResize == InitResize /\ [][NextResize]_vars

\* the dialog over a workbook with or without stored settings
InitDialog ==
  /\ InitRender(MainArrays, OneRect)
  /\ cfgDefaults = DefaultsTree
  /\ cfgTree = DeepCopy(DefaultsTree)
  /\ settings \in StoredSettings
  /\ savedFrom = IF settings = NULL THEN NULL ELSE Some(JsonParse(settings[1]))
  /\ merged = NULL
  /\ nSets = 0
  /\ InitIdle
  /\ InitNoTable
  /\ InitNoDialog
SpecDialog == InitDialog /\ [][NextDialog]_vars

-----------------------------------------------------------------------------
(* Sort order, checked under SpecSort *)

\* C1: a render that is handed the same rows D and the same sort order as
\* the render before it - a repeated render(D, ...) or the resize observer's
\* re-render of the chart's own sorted array - leaves the drawn dimension
\* order as it was: the sort is applied to D, never to a sorted copy.
C1_SortIdempotent ==
  [][ ( /\ lastArgs # NULL
        /\ lastArgs' # NULL
        /\ lastArgs'[1].rows = lastArgs[1].rows
        /\ lastArgs'[1].config.xAxis.sort = lastArgs[1].config.xAxis.sort )
      => xScale' = xScale ]_vars

\* a resize re-render of three reversed rows has happened
C1_Witness ==
  /\ lastOp = "resize"
  /\ data # NULL
  /\ config[1].xAxis.sort = "reverse"
  /\ Len(xScale) = 3
  /\ xScale = Reverse([i \in 1..3 |-> lastArgs[1].rows[i].dimension])

Timestamp(i) == ParseDate(xScale[i])[1]

AllDates == \A i \in DOMAIN xScale : ParseDate(xScale[i]) # NULL

\* C7: when every dimension value parses as a date, sort 'asc' draws the
\* rows in non-decreasing timestamp order and sort 'desc' in non-increasing
\* timestamp order, whatever the order of the input rows.
C7_DateSort ==
  (lastArgs # NULL /\ AllDates) =>
    /\ config[1].xAxis.sort = "asc" =>
         \A i, j \in DOMAIN xScale : i < j => Timestamp(i) <= Timestamp(j)
    /\ config[1].xAxis.sort = "desc" =>
         \A i, j \in DOMAIN xScale : i < j => Timestamp(i) >= Timestamp(j)

\* three date rows handed in as Mar, Jan, Feb are drawn Jan, Feb, Mar
C7_Witness ==
  /\ lastArgs # NULL
  /\ config[1].xAxis.sort = "asc"
  /\ [i \in 1..Len(lastArgs[1].rows) |-> lastArgs[1].rows[i].dimension]
       = <<"Mar 2024", "Jan 2024", "Feb 2024">>
  /\ xScale = <<"Jan 2024", "Feb 2024", "Mar 2024">>

-----------------------------------------------------------------------------
(* Replacement, checked under SpecAxes *)

\* C2: a render that is handed the same rows, config and container size as
\* the render before it leaves every drawn group as it was: dimension
\* order, bar rects, line points and the tick labels of both y axes with
\* their transform attributes.
C2_RenderReplaces ==
  [][ (lastArgs # NULL /\ lastArgs' = lastArgs) =>
        /\ xScale' = xScale
        /\ barsGroup'[1].rects = barsGroup[1].rects
        /\ lineGroup' = lineGroup
        /\ yAxisLeftGroup' = yAxisLeftGroup
        /\ yAxisRightGroup' = yAxisRightGroup ]_vars

-----------------------------------------------------------------------------
(* Shared axis, checked under SpecShared *)

\* C3: after a render with an axisMode other than 'dual', yScaleRight is
\* the same scale as yScaleLeft (domain and range), whatever syncDualAxis,
\* the yAxisRight settings and line.verticalPosition are, and the line's
\* points are placed with the scale the bars use.
C3_SharedScale ==
  (config # NULL /\ config[1].axisMode # "dual") =>
    /\ yScaleRight = yScaleLeft
    /\ lineGroup[1].den = ScaleDen(yScaleLeft[1])
    /\ lineGroup[1].points =
         [i \in 1..Len(data[1].rows) |->
            ScaleNum(yScaleLeft[1], data[1].rows[i].lineValue * FP)]

\* a shared-axis chart drawn with every right-axis setting off its default
C3_Witness ==
  /\ config # NULL
  /\ config[1].axisMode = "shared"
  /\ config[1].syncDualAxis
  /\ config[1].yAxisRight.min # NULL
  /\ config[1].yAxisRight.max # NULL
  /\ ~config[1].yAxisRight.includeZero
  /\ config[1].line.verticalPosition = "middle"
  /\ Len(data[1].rows) = 3
  /\ yScaleRight = yScaleLeft

-----------------------------------------------------------------------------
(* Dual axis, checked under SpecDual *)

SetMax(S) == CHOOSE m \in S : \A x \in S : m >= x

DrawnRows == data[1].rows

\* the largest bar top of the drawn rows: bar1 + bar2 when stacked, else the
\* larger of the two
DrawnBarMax ==
  SetMax({ IF config[1].barStyle = "stacked"
             THEN DrawnRows[i].bar1Value + DrawnRows[i].bar2Value
             ELSE Max2(DrawnRows[i].bar1Value, DrawnRows[i].bar2Value)
           : i \in DOMAIN DrawnRows })

DrawnLineMax == SetMax({ DrawnRows[i].lineValue : i \in DOMAIN DrawnRows })

NoOverride(axis) == axis.min = NULL /\ axis.max = NULL /\ axis.includeZero

\* C4: in dual mode with syncDualAxis on, both y scales are handed the same
\* domain; with no min/max override and includeZero at its default that
\* domain is [0, 1.1 * max(barMax, lineMax)].
C4_SyncDomain ==
  (config # NULL /\ config[1].axisMode = "dual" /\ config[1].syncDualAxis) =>
    /\ yScaleLeft[1].given = yScaleRight[1].given
    /\ yScaleLeft[1].domain = yScaleRight[1].domain
    /\ (NoOverride(config[1].yAxisLeft) /\ NoOverride(config[1].yAxisRight)) =>
         yScaleLeft[1].given = <<0, 110 * Max2(DrawnBarMax, DrawnLineMax)>>

\* synchronised default axes over rows whose line exceeds the bars
C4_Witness ==
  /\ config # NULL
  /\ config[1].syncDualAxis
  /\ NoOverride(config[1].yAxisLeft) /\ NoOverride(config[1].yAxisRight)
  /\ DrawnLineMax = 120
  /\ DrawnBarMax = 100
  /\ yScaleRight[1].given = <<0, 13200>>

\* the rows with every bar value replaced
WithBars(rows, b1, b2) ==
  [i \in DOMAIN rows |-> [rows[i] EXCEPT !.bar1Value = b1 + i, !.bar2Value = b2]]

\* the rows with every line value replaced
WithLine(rows, v) == [i \in DOMAIN rows |-> [rows[i] EXCEPT !.lineValue = v + i]]

AltValues == {0, 7, 300}

AltLeftAxes ==
  { [config[1].yAxisLeft EXCEPT !.min = mn, !.max = mx, !.includeZero = z] :
      mn \in {NULL, Some(10)}, mx \in {NULL, Some(200)}, z \in BOOLEAN }

\* C5: in dual mode with syncDualAxis off the right scale's domain is the
\* one any other bar values, barStyle and yAxisLeft settings give with the
\* same line values and yAxisRight settings, with defaults it is
\* [0, 1.1 * max lineValue], and the left scale's domain is the one any
\* other line values give.
C5_IndependentDomains ==
  (config # NULL /\ config[1].axisMode = "dual" /\ ~config[1].syncDualAxis) =>
    /\ \A b1, b2 \in AltValues, bs \in {"grouped", "stacked"}, left \in AltLeftAxes :
         LET other == YScaleRightOf(WithBars(DrawnRows, b1, b2),
                                    [config[1] EXCEPT !.barStyle = bs, !.yAxisLeft = left],
                                    height)
         IN other.given = yScaleRight[1].given /\ other.domain = yScaleRight[1].domain
    /\ NoOverride(config[1].yAxisRight) =>
         yScaleRight[1].given = <<0, 110 * DrawnLineMax>>
    /\ \A v \in AltValues :
         LET other == YScaleLeftOf(WithLine(DrawnRows, v), config[1], height)
         IN other.given = yScaleLeft[1].given /\ other.domain = yScaleLeft[1].domain

\* independent default axes over the line values 5 and 15: [0, 16.5]
C5_Witness ==
  /\ config # NULL
  /\ ~config[1].syncDualAxis
  /\ NoOverride(config[1].yAxisRight)
  /\ [i \in DOMAIN DrawnRows |-> DrawnRows[i].lineValue] = <<5, 15>>
  /\ yScaleRight[1].given = <<0, 1650>>
  /\ yScaleLeft[1].given # yScaleRight[1].given

\* C6: with barStyle 'stacked' every row's second segment sits on the
\* first: y2 + height2 = y1 = yScaleLeft(bar1Value) and
\* y2 = yScaleLeft(bar1Value + bar2Value), for the attributes set directly
\* (animation off) and for the transition's targets (animation on).
C6_StackedSegments ==
  (config # NULL /\ config[1].barStyle = "stacked") =>
    \A i \in DOMAIN DrawnRows :
      LET r == barsGroup[1].rects[i]
      IN /\ r.y2 + r.height2 = r.y1
         /\ r.y1 = ScaleNum(yScaleLeft[1], DrawnRows[i].bar1Value * FP)
         /\ r.y2 = ScaleNum(yScaleLeft[1],
                            (DrawnRows[i].bar1Value + DrawnRows[i].bar2Value) * FP)
         /\ ~barsGroup[1].anim.enabled => r.start2 = <<r.y2, r.height2>>

\* stacked bars with a second segment of positive height, drawn directly by
\* a render that follows the first, animated one
C6_Witness ==
  /\ config # NULL
  /\ config[1].barStyle = "stacked"
  /\ ~barsGroup[1].anim.enabled
  /\ lastOp = "render"
  /\ \E i \in DOMAIN DrawnRows :
       DrawnRows[i].bar1Value > 0 /\ barsGroup[1].rects[i].height2 > 0

-----------------------------------------------------------------------------
(* C8: the round trip of a configuration through the saved settings *)

\* the paths of the model's trees, one or two keys long
Paths == { <<k>> : k \in Keys } \cup { <<k, j>> : k \in Keys, j \in Keys }

\* the node of a tree at a path, Absent if the path leads nowhere
Node(tree, path) ==
  IF Len(path) = 1 THEN Prop(tree, path[1])
  ELSE Prop(Prop(tree, path[1]), path[2])

\* C8: for the configuration c that was saved, Config.merge(defaults,
\* JSON.parse(JSON.stringify(c))) holds every leaf of c with exactly its
\* value and every default leaf absent from c with its default value; the
\* merged tree shares no object with Config.defaults and the defaults are
\* as they were.
C8_RoundTrip ==
  merged # NULL =>
    LET c == merged[1].c
        result == merged[1].result
    IN /\ \A p \in Paths : Node(c, p).t = "leaf" => Node(result, p) = Node(c, p)
       /\ \A p \in Paths :
            (Node(DefaultsTree, p).t = "leaf" /\ Node(c, p).t = "absent")
              => Node(result, p) = Node(DefaultsTree, p)
       /\ ~HoldsDefaults(result)
       /\ cfgDefaults = DefaultsTree

-----------------------------------------------------------------------------
(* C9: the debounced reload after worksheet events, checked under SpecMain *)

\* event number v has just come
Event(v) == dataVersion = v /\ sinceEvent = 0

\* a load that asked for its data at or after event number v has settled
Settled(v) == settled # NULL /\ settled[1].ver >= v

\* ... and its rows were drawn
Redrawn(v) == Settled(v) /\ settled[1].shown = "chart"

\* a burst causes one reload, started DebounceTicks after its last event
OneReloadPerBurst ==
  /\ [](reloads <= 1)
  /\ []((burst # <<>> /\ sinceEvent > DebounceTicks) => reloads = 1)
  /\ [][reloads' = reloads + 1 => sinceEvent = DebounceTicks]_vars

\* the chart on show is drawn from the rows of the load that settled last
DrawnFromFetched ==
  panel = "chart" =>
    /\ settled[1].shown = "chart"
    /\ lastArgs[1].rows = settled[1].rows
    /\ xScale = [i \in 1..Len(settled[1].rows) |-> settled[1].rows[i].dimension]

-----------------------------------------------------------------------------
(* C10: the roles of getData's result, checked under SpecFields *)

FieldNamesOf(cols) == { cols[i].fieldName : i \in DOMAIN cols }

\* the saved configuration names four fields and the worksheet has them all
Configured ==
  /\ \A k \in DOMAIN fieldConfig : fieldConfig[k] # <<>>
  /\ \A k \in DOMAIN fieldConfig : fieldConfig[k] \in FieldNamesOf(columns)

\* the position of a named column
ColumnNamed(name) == CHOOSE i \in DOMAIN columns : columns[i].fieldName = name

\* C10: when the saved configuration names a dimension, bar1Measure,
\* bar2Measure and lineMeasure that all exist among the worksheet's columns,
\* the rows and fieldNames getData returns use exactly those columns for
\* dimension, bar 1, bar 2 and line.
C10_ConfiguredRoles ==
  (fetched # NULL /\ Configured /\ Len(TableData(columns)) > 0) =>
    LET res == fetched[1]
        rows == TableData(columns)
        cell(r, name) == rows[r][ColumnNamed(name)]
    IN /\ res.fieldNames = [dimension |-> fieldConfig.dimension,
                            bar1 |-> fieldConfig.bar1Measure,
                            bar2 |-> fieldConfig.bar2Measure,
                            line |-> fieldConfig.lineMeasure]
       /\ \A r \in DOMAIN rows :
            /\ res.data[r].dimension = cell(r, fieldConfig.dimension).formattedValue
            /\ res.data[r].bar1Value = ParseNumber(cell(r, fieldConfig.bar1Measure))
            /\ res.data[r].bar2Value = ParseNumber(cell(r, fieldConfig.bar2Measure))
            /\ res.data[r].lineValue = ParseNumber(cell(r, fieldConfig.lineMeasure))

-----------------------------------------------------------------------------
(* The dialog's measure selects, checked under SpecDialog *)

\* the measures the config assigns to the roles other than r
AssignedElsewhere(r) == { dlgConfig.kids[o].v : o \in MeasureRoles \ {r} } \ {"''"}

\* the three assigned measures are pairwise distinct, an unset role aside
RolesDistinct ==
  \A r \in MeasureRoles : dlgConfig.kids[r].v \notin AssignedElsewhere(r)

\* C11: while the dialog is open, after any measure selections and bar
\* swaps, each of the Bar 1, Bar 2 and Line selects offers no measure that
\* the config assigns to another role, the assigned measures are pairwise
\* distinct and each select shows the measure the config holds for its role.
C11_DropdownsFollowConfig ==
  dialog = "open" =>
    /\ RolesDistinct
    /\ \A r \in MeasureRoles :
         /\ \A i \in DOMAIN selects[r].options :
              selects[r].options[i] \notin AssignedElsewhere(r)
         /\ selects[r].value = dlgConfig.kids[r].v

\* C12: when the dialog has been closed by Cancel and neither Apply nor
\* Save & Close was pressed since it was opened, the stored comboChartConfig
\* is the text it was when the dialog opened, and the page has not run
\* Config.load() in between.  (dialog = "cancelled" is the close payload.)
C12_CancelKeepsSettings ==
  (dialog = "cancelled" /\ ~session.committed) =>
    /\ settings = session.atOpen
    /\ ~session.reloaded

\* the literals of the dimension and measure values of the worksheet's rows
RowLiterals ==
  UNION { { "'" \o worksheet[i].dimension \o "'", ToString(worksheet[i].bar1Value),
            ToString(worksheet[i].bar2Value), ToString(worksheet[i].lineValue) } :
          i \in DOMAIN worksheet }

\* C13: the text stored under comboChartConfig - by Config.save, Apply,
\* Save & Close or Preview Animation - is the JSON text of the configuration
\* tree of its writer and nothing else, and none of its values is a
\* dimension or measure value of the worksheet's rows: the same clicks over
\* other rows store the same text.
C13_SettingsHoldConfigOnly ==
  settings # NULL =>
    /\ settings[1] = JsonStringify(savedFrom[1])
    /\ savedFrom[1] \in {cfgTree, dlgConfig, JsonParse(settings[1])}
    /\ \A i \in DOMAIN settings[1] : settings[1][i] \notin RowLiterals

C13_Witness ==
  /\ worksheet # <<>>
  /\ settings # NULL
  /\ settings # session.atOpen
  /\ session.committed
  /\ dlgConfig.kids["bar1Measure"].v = "'Profit'"

-----------------------------------------------------------------------------
(* The legend's deferred re-render and the chart's cache, under SpecLegend *)

\* C14: when the timeout set by a render that found the legend position
\* changed has run its re-render, the chart still holds the rows, the
\* original rows and the config of the render before it - the re-render
\* drew from the cache and completed - and no further timeout is pending
\* for the position it drew.
C14_LegendRerenderKeepsCache ==
  lastOp = "legend" =>
    /\ data # NULL
    /\ originalData # NULL
    /\ config = Some(lastArgs[1].config)
    /\ lastLegendPosition[1] \notin legendTimers

\* C15: the config the chart holds is the config its last render call was
\* handed: no step other than a render call - a Config.set of the context
\* menu, a reload of the settings, a data load - changes the values a
\* resize re-render will draw.
C15_CacheChangesOnlyInRender ==
  config # NULL => config = Some(lastArgs[1].config)

-----------------------------------------------------------------------------
(* Configured axis ranges, checked under SpecBounds *)

\* C16: for the left and the right y axis and for each of min and max, a
\* configured value that is not null, 0 included, is the bound of the domain
\* handed to that axis's scale before nice() - with a shared axis, with
\* independent dual axes and with synchronized dual axes.
C16_ConfiguredBounds ==
  config # NULL =>
    \A side \in {"yAxisLeft", "yAxisRight"} :
      LET axis == config[1][side]
          scale == IF side = "yAxisLeft" THEN yScaleLeft[1] ELSE yScaleRight[1]
      IN /\ axis.min # NULL => scale.given[1] = axis.min[1] * FP
         /\ axis.max # NULL => scale.given[2] = axis.max[1] * FP

-----------------------------------------------------------------------------
(* Animation timing, checked under SpecLegend *)

\* C17: with animation enabled, no point marker starts to fade in before
\* the line's draw-in transition has run its whole duration.
C17_PointsAfterLine ==
  (lineGroup # NULL /\ lineGroup[1].transitions # NULL) =>
    \A i \in DOMAIN lineGroup[1].transitions[1].delay :
      lineGroup[1].transitions[1].delay[i] >= lineGroup[1].transitions[1].line

\* C18: a render that draws uses config.animation.duration if it is the
\* first render of the chart or config.forceAnimationPreview is set for it,
\* and half of config.animation.duration otherwise, whoever called it.
C18_AnimationDuration ==
  [][ (barsGroup' # NULL /\ barsGroup' # barsGroup) =>
        /\ barsGroup'[1].anim.duration =
             IF barsGroup = NULL \/ config'[1].forceAnimationPreview
               THEN config'[1].animation.duration
               ELSE config'[1].animation.duration \div 2
        /\ lineGroup'[1].transitions[1].line = 12 * barsGroup'[1].anim.duration ]_vars

\* a resize re-render at half the configured duration
C18_Witness ==
  /\ lastOp = "resize"
  /\ barsGroup # NULL
  /\ ~config[1].forceAnimationPreview
  /\ config[1].animation.duration = 500
  /\ barsGroup[1].anim.duration = 250

-----------------------------------------------------------------------------
(* The resize observer's debounce, checked under SpecResize *)

\* C19: the timeout of a burst of resize notifications runs once, 100 ms
\* after the last notification - while it is pending no more than 100 ms
\* have passed - and its callback re-renders the chart from its cache if
\* data has been rendered before, and does nothing if none has.
C19_DebouncedResize ==
  /\ resizeTimeout => clock[1] <= ResizeTicks
  /\ resizeDone # NULL =>
       /\ resizeDone[1].at = ResizeTicks
       /\ resizeDone[1].rendered = resizeDone[1].hadData
-----------------------------------------------------------------------------
(* C20: failures of loadAndRenderChart, checked under SpecMain *)

\* the load that settled last ended in the catch block
Failed ==
  /\ settled # NULL
  /\ settled[1].outcome \in Outcomes \ {"resolved"}

\* C20: if getData rejects or ComboChart.render throws during
\* loadAndRenderChart, the error is caught: the error panel is shown with
\* the failure message, nothing reaches the caller, and the loading panel
\* is on show only while a request for data is still waiting.
C20_FailureShowsError ==
  /\ panel = "loading" => loads # <<>>
  /\ Failed =>
       /\ settled[1].shown = "error"
       /\ settled[1].errorText =
            Some("Failed to load data: " \o ErrorMessage(settled[1].outcome))
       /\ ~settled[1].propagated
       /\ panel = "error" \/ (panel = "loading" /\ loads # <<>>)

\* a render that threw was caught: every request is answered, the error
\* panel is on show and the chart object holds rows it never drew
C20_Witness ==
  /\ Failed
  /\ settled[1].outcome = "threw"
  /\ loads = <<>>
  /\ panel = "error"
  /\ data = Some(InputArray(settled[1].rows))
  /\ dataVersion >= 1

-----------------------------------------------------------------------------
(* C21: overlapping load cycles, checked under SpecMain *)

\* C21: when load cycles overlap, a cycle that started earlier never draws
\* over the chart of a cycle that started later: the chart on show once all
\* have settled is drawn from the rows of the cycle started last.
C21_LatestCycleWins ==
  [][(/\ settled # NULL
      /\ settled[1].shown = "chart"
      /\ settled' # NULL
      /\ settled'[1].shown = "chart")
     => settled'[1].ver >= settled[1].ver]_vars

-----------------------------------------------------------------------------
(* C22: Config.load over every stored text, checked under SpecLoad *)

\* a configuration saved earlier, every leaf set away from its default
SavedTree ==
  Obj("fresh",
      [k \in {"barStyle", "yAxisLeft", "titleFont", "barLabels"} |->
         CASE k = "barStyle" -> Leaf("'stacked'")
           [] k = "yAxisLeft" ->
                Obj("fresh", [j \in {"min", "max", "format"} |->
                                IF j = "format" THEN Leaf("'number'") ELSE Leaf("10")])
           [] k = "titleFont" -> Obj("fresh", [j \in {"size"} |-> Leaf("24")])
           [] k = "barLabels" ->
                Obj("fresh", [j \in {"show", "offsetX"} |->
                                IF j = "show" THEN Leaf("true") ELSE Leaf("5")])])

\* an object with any subset of its keys missing
PartialObjs(o) ==
  { Obj("fresh", [k \in S |-> o.kids[k]]) : S \in SUBSET DOMAIN o.kids }

\* what may stand under key k of a stored object: nothing, the leaf, or the
\* sub-object with any of its keys missing
StoredUnder(k) ==
  {Absent} \cup (IF SavedTree.kids[k].t = "leaf" THEN {SavedTree.kids[k]}
                 ELSE PartialObjs(SavedTree.kids[k]))

\* the saved configuration with any subset of keys missing, at both levels
StoredTrees ==
  LET top == DOMAIN SavedTree.kids
      all == UNION { StoredUnder(k) : k \in top }
      picks == { c \in [top -> all] : \A k \in top : c[k] \in StoredUnder(k) }
  IN { Obj("fresh", [k \in { x \in top : c[x] # Absent } |-> c[k]]) : c \in picks }

\* texts JSON.parse rejects
MalformedTexts == { <<"{">>, <<"{", "barStyle">>, <<"}">>,
                    <<"{", "barStyle", "'stacked'", "}", "}">> }

\* the page opens over settings that are absent, empty, malformed or hold
\* such a saved object
InitLoad ==
  /\ InitRender(OneArray, OneRect)
  /\ InitIdle
  /\ InitNoTable
  /\ InitNoDialog
  /\ cfgDefaults = DefaultsTree
  /\ cfgTree = DeepCopy(DefaultsTree)
  /\ \E text \in {NULL, Some(<<>>)} \cup { Some(m) : m \in MalformedTexts }
                 \cup { Some(JsonStringify(t)) : t \in StoredTrees } :
       /\ settings = text
       /\ savedFrom = IF text = NULL \/ text[1] = <<>> \/ SyntaxError(text[1]) THEN NULL
                      ELSE Some(JsonParse(text[1]))
  /\ merged = NULL
  /\ nSets = 0

SpecLoad == InitLoad /\ [][ConfigLoad]_vars

\* every key the defaults declare is there, objects as objects and no leaf
\* undefined
RECURSIVE Complete(_, _)
Complete(tree, defaults) ==
  /\ tree.t = "obj"
  /\ \A k \in DOMAIN defaults.kids :
       /\ k \in DOMAIN tree.kids
       /\ IF defaults.kids[k].t = "obj" THEN Complete(tree.kids[k], defaults.kids[k])
          ELSE tree.kids[k].t = "leaf" /\ tree.kids[k].v # "undefined"

\* C22: after Config.load() - settings absent, malformed or an object with
\* any subset of keys missing - Config.current holds every sub-object and
\* every leaf the defaults declare, the font object with its fields.
C22_LoadedConfigComplete ==
  [][ConfigLoad => Complete(cfgTree', DefaultsTree)]_vars

\* Config.load() has merged a stored object that lacks the font object and
\* part of the axis: the saved leaves are kept and the missing ones are the
\* defaults'
C22_Witness ==
  /\ merged # NULL
  /\ "titleFont" \notin DOMAIN merged[1].c.kids
  /\ "yAxisLeft" \in DOMAIN merged[1].c.kids
  /\ DOMAIN merged[1].c.kids["yAxisLeft"].kids = {"min"}
  /\ cfgTree.kids["yAxisLeft"].kids["min"] = Leaf("10")
  /\ cfgTree.kids["yAxisLeft"].kids["format"] = Leaf("'auto'")
  /\ cfgTree.kids["titleFont"].kids["size"] = Leaf("18")

-----------------------------------------------------------------------------
(* C23: drawn values and the scales' domains, checked under SpecSigned *)

\* worksheets with measures below zero: a loss among gains, and losses only
SignedArrays ==
  LET loss == [dimension |-> "Jan 2024", bar1Value |-> -20, bar2Value |-> 10, lineValue |-> -5]
      gain == [dimension |-> "Feb 2024", bar1Value |-> 30, bar2Value |-> 5, lineValue |-> 15]
      losses == [dimension |-> "Mar 2024", bar1Value |-> -10, bar2Value |-> -30,
                 lineValue |-> -40]
  IN { <<gain>>, <<loss, gain>>, <<losses>> }

\* axis mode, sync, bar style and includeZero of both axes; no manual range
SignedEdits ==
  ({<<"axisMode">>} \X {"dual", "shared"})
  \cup ({<<"syncDualAxis">>} \X BOOLEAN)
  \cup ({<<"barStyle">>} \X {"grouped", "stacked"})
  \cup ({<<"yAxisLeft", "includeZero">>, <<"yAxisRight", "includeZero">>} \X BOOLEAN)

InitSigned ==
  InitRender(SignedArrays, OneRect) /\ InitConfig /\ InitIdle /\ InitNoTable /\ InitNoDialog
NextSigned == NextRender(SignedArrays, SignedEdits, OneRect)
SpecSigned == InitSigned /\ [][NextSigned]_vars

\* v (a measure value) lies within the domain of scale s
InDomain(s, v) == s.domain[1] <= v * FP /\ v * FP <= s.domain[2]

\* neither axis has a configured minimum or maximum
NoManualRange(cfg) ==
  /\ cfg.yAxisLeft.min = NULL /\ cfg.yAxisLeft.max = NULL
  /\ cfg.yAxisRight.min = NULL /\ cfg.yAxisRight.max = NULL

\* C23: with no manual min/max every drawn value lies inside the domain of
\* the scale it is drawn against - bar values (and their sum when stacked)
\* in the left domain, line values in the line's domain - and no domain's
\* lower bound is above its upper bound, negative measures included.
C23_DrawnInsideDomain ==
  (data # NULL /\ lastOp = "render" /\ NoManualRange(config[1])) =>
    LET rows == data[1].rows
        cfg == config[1]
        line == IF cfg.axisMode = "dual" THEN yScaleRight[1] ELSE yScaleLeft[1]
    IN /\ yScaleLeft[1].domain[1] <= yScaleLeft[1].domain[2]
       /\ line.domain[1] <= line.domain[2]
       /\ \A i \in DOMAIN rows :
            /\ InDomain(yScaleLeft[1], rows[i].bar1Value)
            /\ InDomain(yScaleLeft[1], rows[i].bar2Value)
            /\ cfg.barStyle = "stacked" =>
                 InDomain(yScaleLeft[1], rows[i].bar1Value + rows[i].bar2Value)
            /\ InDomain(line, rows[i].lineValue)

-----------------------------------------------------------------------------
(* C24-C26: the geometry of bars and bar labels, checked under SpecBars *)

\* bar style, gap, width and the bar labels, as a stored configuration or the
\* dialog may set them; a width above 100 % among them
BarEdits ==
  ({<<"barStyle">>} \X {"grouped", "stacked"})
  \cup ({<<"barGap">>} \X {NULL, Some(0), Some(10)})
  \cup ({<<"barWidth">>} \X {NULL, Some(50), Some(150)})
  \cup ({<<"barLabels", "show">>} \X BOOLEAN)
  \cup ({<<"barLabels", "position">>} \X {"top", "inside", "center"})

InitBars ==
  InitRender(MainArrays \ {<<>>}, TwoRects) /\ InitConfig /\ InitIdle /\ InitNoTable
  /\ InitNoDialog
NextBars == NextRender(MainArrays \ {<<>>}, BarEdits, TwoRects)
SpecBars == InitBars /\ [][NextBars]_vars

\* C24: in grouped mode each bar is at most the half-band
\* (bandWidth - barGap) / 2 wide, and the two bars with their gap lie inside
\* the category's band, centred in it.
C24_GroupedBarsInBand ==
  (barsGroup # NULL /\ config # NULL /\ config[1].barStyle = "grouped") =>
    LET g == barsGroup[1]
    IN /\ 2 * g.width <= g.band - g.gap
       /\ \A i \in DOMAIN g.x :
            /\ g.x[i].band <= g.x[i].x1
            /\ g.x[i].x2 + g.width <= g.x[i].band + g.band
            /\ g.x[i].x1 - g.x[i].band = (g.x[i].band + g.band) - (g.x[i].x2 + g.width)
            /\ g.x[i].x2 = g.x[i].x1 + g.width + g.gap

\* bar labels are drawn, with no offset
LabelsDrawn ==
  /\ barsGroup # NULL /\ labelsGroup # NULL /\ config # NULL
  /\ labelsGroup[1].labels # <<>>
  /\ config[1].barLabels.offsetX = 0
  /\ config[1].barLabels.offsetY = 0

\* C25: in grouped and in stacked mode each bar label's x is the horizontal
\* centre of the rect it labels.
C25_LabelAtBarCentre ==
  LabelsDrawn =>
    \A i \in DOMAIN labelsGroup[1].labels :
      /\ 2 * labelsGroup[1].labels[i].x1 = 2 * barsGroup[1].x[i].x1 + barsGroup[1].width
      /\ 2 * labelsGroup[1].labels[i].x2 = 2 * barsGroup[1].x[i].x2 + barsGroup[1].width

\* C26: with position 'center' (any value but 'top' and 'inside') each bar
\* label's y is the midpoint between its bar's top and its bar's own
\* baseline - the x axis, or the first segment's top for the second stacked
\* segment.
C26_LabelAtBarMiddle ==
  (LabelsDrawn /\ config[1].barLabels.position \notin {"top", "inside"}) =>
    \A i \in DOMAIN labelsGroup[1].labels :
      LET r == barsGroup[1].rects[i]
          l == labelsGroup[1].labels[i]
      IN /\ l.y1 = 2 * r.y1 + r.height1
         /\ l.y2 = 2 * r.y2 + r.height2

-----------------------------------------------------------------------------
(* C27, C28: the columns getData detects, checked under SpecFields *)

\* the four role indices of the detection, in the order dimension, bar 1,
\* bar 2, line
RoleIndices(cols) ==
  LET m == FieldMapping(cols)
  IN <<m.dimIndex, m.bar1Index, m.bar2Index, m.lineIndex>>

\* getData has run its field detection on the worksheet's columns
Detected == fetched # NULL /\ Len(TableData(columns)) > 0

\* C27: for every worksheet column layout, getData never assigns the same
\* column to two of the four roles (dimension, bar 1, bar 2, line): the role
\* indices that are set (>= 0) are pairwise distinct.
C27_RolesUseDistinctColumns ==
  Detected =>
    LET idx == RoleIndices(columns)
    IN \A i, j \in DOMAIN idx :
         (i # j /\ idx[i] >= 0 /\ idx[j] >= 0) => idx[i] # idx[j]

\* the worksheet's columns drawn from the wide pool, with no saved fields
InitDetect ==
  /\ InitRender({<<>>}, OneRect)
  /\ InitConfig
  /\ InitIdle
  /\ columns \in { c \in ColumnListsOf(WidePool) : Len(c) = MaxCols }
  /\ fieldConfig = NoFields
  /\ fetched = NULL
  /\ InitNoDialog

NextDetect ==
  \/ FirstLoad
  \/ \E cols \in ColumnChangesIn(ColumnListsOf(WidePool), columns) : ColumnsChanged(cols)

SpecDetect == InitDetect /\ [][NextDetect]_vars

\* the worksheet supplies a string/date column and three numeric columns
DimensionAndThreeMeasures ==
  /\ \E i \in DOMAIN columns : IsDateOrString(columns[i])
  /\ Cardinality({ i \in DOMAIN columns : IsNumeric(columns[i]) }) >= 3

\* C28: whenever the worksheet supplies at least one string/date column and
\* at least three numeric columns, getData maps bar 1, bar 2 and line to
\* three distinct numeric columns and reports hasAllFields = TRUE, whatever
\* the columns' names and order.
C28_ThreeMeasuresSuffice ==
  (Detected /\ DimensionAndThreeMeasures) =>
    LET m == FieldMapping(columns)
        roles == {m.bar1Index, m.bar2Index, m.lineIndex}
    IN /\ Cardinality(roles) = 3
       /\ \A idx \in roles : idx >= 0 /\ IsNumeric(columns[idx + 1])
       /\ fetched[1].hasAllFields

-----------------------------------------------------------------------------
(* C29: the context menu's prompts (contextMenu.js lines 416-448), checked  *)
(* under SpecPrompt                                                         *)

\* prompt() returns null on Cancel
Cancel == "null"

\* what a prompt for a title returns: a text, the empty text, or null
TitleResults == {"Q1", "", Cancel}

\* what a prompt for a bound returns
RangeResults == PromptInputs \cup {Cancel}

\* a string as a JavaScript literal
Quoted(str) == "'" \o str \o "'"

\* the shared body of promptTitle and promptAxisTitle: if (newTitle !==
\* null) { updateConfig(path, newTitle); applyAndRefresh() }
PromptText(path, newTitle) ==
  /\ IF newTitle # Cancel
       THEN /\ cfgTree' = ConfigSetAt(cfgTree, path, Leaf(Quoted(newTitle)))
            /\ settings' = Some(SaveOf(cfgTree'))
            /\ savedFrom' = Some(cfgTree')
       ELSE UNCHANGED <<cfgTree, settings, savedFrom>>
  /\ UNCHANGED <<cfgDefaults, merged, nSets, outsideConfig, dialogVars>>

\* ContextMenu.promptTitle(), lines 416-423
PromptTitle(newTitle) == PromptText(<<"title", "text">>, newTitle)

\* ContextMenu.promptAxisTitle(axisKey), lines 428-435
PromptAxisTitle(newTitle) == PromptText(<<"yAxisLeft", "title">>, newTitle)

NextPrompt ==
  \/ \E newTitle \in TitleResults : PromptTitle(newTitle)
  \/ \E newTitle \in TitleResults : PromptAxisTitle(newTitle)
  \/ \E min, max \in RangeResults : PromptAxisRange(min, max)

SpecPrompt == InitConfigOnly /\ [][NextPrompt]_vars

\* the configured bound of the axis
AxisBound(tree, key) == Prop(Prop(tree, "yAxisLeft"), key)

\* C29: dismissing a context-menu prompt leaves the configuration unchanged
\* and triggers no save: cancelling the chart-title prompt, the axis-title
\* prompt or either of the axis Min/Max prompts does not alter the title
\* text, the axis title, or the axis's configured min and max.
C29_CancelChangesNothing ==
  [][/\ PromptTitle(Cancel) => UNCHANGED <<cfgTree, settings>>
     /\ PromptAxisTitle(Cancel) => UNCHANGED <<cfgTree, settings>>
     /\ \A max \in RangeResults :
          PromptAxisRange(Cancel, max) => AxisBound(cfgTree', "min") = AxisBound(cfgTree, "min")
     /\ \A min \in RangeResults :
          PromptAxisRange(min, Cancel) => AxisBound(cfgTree', "max") = AxisBound(cfgTree, "max")
     /\ PromptAxisRange(Cancel, Cancel) => UNCHANGED <<cfgTree, settings>>]_vars

-----------------------------------------------------------------------------
(* C30: the panels on show, checked under SpecMain *)

\* the panels without the class 'hidden'
Visible == Panels \ hidden

\* C30: after initialisation and after every subsequent load, render,
\* empty-data or error event - overlapping load cycles included - exactly
\* one of the four panels (loading, fields-required, chart, error) is
\* visible; the chart panel is never visible together with the loading or
\* the error panel.
C30_OnePanelVisible ==
  /\ Cardinality(Visible) = 1
  /\ Visible = {panel}
  /\ "chart" \in Visible => ("loading" \notin Visible /\ "error" \notin Visible)

\* a later load cycle has put up the chart or the error panel while an
\* earlier one still waits for its data
C30_Witness ==
  /\ settled # NULL
  /\ loads # <<>>
  /\ \E i \in DOMAIN loads : loads[i].ver < settled[1].ver
  /\ Visible \in {{"chart"}, {"error"}}

=============================================================================
